---- MODULE Spec2Model ----
(***************************************************************************)
(* Verification model of the ClawdBot bridge:                              *)
(*   - the Gateway protocol client (package clawdbot: AskClawdbot,          *)
(*     ResetSession), whose source is carried in src/docs/deploy-guide.md,  *)
(*   - the message dispatcher (package bridge: HandleMessage, messageCache, *)
(*     processMessage), src/internal/bridge/bridge.go.                      *)
(*                                                                         *)
(* Texts (reply buffers, error messages) are sequences of one-character    *)
(* strings, so that replacing, appending and formatting are computed.      *)
(* Time is counted in ticks.                                               *)
(***************************************************************************)
EXTENDS Integers, Sequences, FiniteSets, TLC

\* ------------------------------------------------------------------ bounds
\* Number of invocations made on the one Client instance.
NumCalls == 2
\* Number of envelopes the Gateway delivers on one connection.
MaxEnvelopes == 4
\* Ticks counted while an invocation queues for the mutex.
MaxWaited == 1

\* Envelopes per connection when several invocations share the client.
MaxClientEnvelopes == 1
\* Envelopes of a call that is sent assistant frames of every shape.
MaxFrames == 3
\* Number of HandleMessage invocations on the one Bridge.
NumHandlers == 2
\* Envelopes the Gateway delivers to the call of a unit of work.
MaxUnitEnvelopes == 2
\* Edits of the thinking placeholder by the animation of a unit of work.
MaxAnimTicks == 3
MaxTextLen == 3
MaxQuickEnvelopes == 2
\* Envelopes of a call whose reply is streamed in several chunks.
MaxChunks == 3
NumUnits == 2

\* time.After(15 * time.Minute), in ticks of seven and a half minutes.
AskTimeout == 2
\* time.After(10 * time.Second), rounded up to one tick.
ResetTimeout == 1

Calls == 1..NumCalls

\* newMessageCache(10 * time.Minute), in ticks of 5 minutes.
DedupTTL == 2

Handlers == 1..NumHandlers

\* ------------------------------------------------------------------ state
VARIABLES
    mu,            \* Client.mu: 0 when free, else the call holding it
    pc,            \* per call: "idle", "lock", "dial", "wait", "done"
    kind,          \* per call: "none", "ask", "reset"
    conn,          \* per call: "none", "open", "closed"
    rpc,           \* per call, the reader goroutine: "none", "read", "proc", "exit"
    cur,           \* per call: the message ReadMessage returned, being processed
    runID,         \* per call: var runID string
    buffer,        \* per call: var buffer string
    responseChan,  \* per call: chan string, capacity 1
    errorChan,     \* per call: chan error, capacity 1
    doneChan,      \* per call: chan bool, capacity 1 (ResetSession)
    sent,          \* per call: ids of the requests written with conn.WriteJSON
    onProgress,    \* per call: whether the onProgress argument is non-nil
    notes,         \* per call: the onProgress goroutines started, in order
    result,        \* per call: what the invocation returned
    timer,         \* per call: ticks since time.After was armed
    waited,        \* per call: ticks spent in c.mu.Lock() (up to MaxWaited)
    nread,         \* per call: envelopes read so far
    frames,        \* history: assistant frames accepted by the call, in order
    hist,          \* history: what the reader has seen and when it stopped
    seenMessages,  \* messageCache.cache: per message id, the age of its entry
    hpc,           \* per HandleMessage invocation: its position
    hmsg,          \* per HandleMessage invocation: the *feishu.Message
    outcome,       \* per HandleMessage invocation: how it returned
    spawned,       \* per message id: units of work spawned since its entry
                   \* was last absent from the cache
    upc,           \* processMessage: "idle", "ask", "final", "end"
    thinkingMs,    \* Bridge.thinkingMs
    done,          \* processMessage: var done bool
    placeholderID, \* processMessage: var placeholderID string (NoID for "")
    responseMessageID, \* processMessage: var responseMessageID string
    thinkingDots,  \* processMessage: var thinkingDots int
    thinkingTimer, \* time.AfterFunc timer: "nil", "armed", "stopped", "fired"
                   \* (while AskClawdbot was running), "late" (fired after
                   \* AskClawdbot had returned, before done was set), "void"
                   \* (fired with done set)
    thinkingTicker, \* *time.Ticker: "nil", "running", "stopped"
    thinkingStop,  \* chan bool: "nil", "open", "closed"
    animation,     \* the animation goroutine: "none", "running", "exit"
    streamBuffer,  \* processMessage: var streamBuffer strings.Builder
    recent,        \* time.Since(lastUpdateTime) < updateInterval
    attempted,     \* history: onProgress wrote to the response message
                   \* less than updateInterval ago
    ran,           \* the onProgress goroutines (indices of notes) that have run
    feishu,        \* the calls made on the chat platform client, in order
    panicked,      \* the process has panicked (close of a closed channel)
    groupText,     \* shouldRespondInGroup: the argument text
    groupMentions, \* shouldRespondInGroup: the argument mentions
    respond,       \* shouldRespondInGroup: empty before the call, then the
                   \* one value returned
    sessionKey,    \* Bridge.sessionKey, the configured override
    chatID,        \* per unit of work: processMessage's argument chatID
    spc,           \* per unit of work: "start", "ask" (AskClawdbot called),
                   \* "sent" (agent request written)
    askKey,        \* per unit of work: the sessionKey argument of AskClawdbot
    agentKey       \* per unit of work: params.sessionKey of the agent request

clientVars == <<mu, pc, kind, conn, rpc, cur, runID, buffer, responseChan,
                errorChan, doneChan, sent, onProgress, notes, result, timer, waited,
                nread, frames, hist>>

dedupVars == <<seenMessages, hpc, hmsg, outcome, spawned>>

unitVars == <<upc, thinkingMs, done, placeholderID, responseMessageID,
              thinkingDots, thinkingTimer, thinkingTicker, thinkingStop,
              animation, streamBuffer, recent, attempted, ran,
              feishu, panicked>>

policyVars == <<groupText, groupMentions, respond>>

sessionVars == <<sessionKey, chatID, spc, askKey, agentKey>>

bridgeVars == <<dedupVars, unitVars, policyVars, sessionVars>>

vars == <<clientVars, bridgeVars>>

\* ------------------------------------------------------- wire envelopes
\* The data of an agent event as it is on the wire. valid = FALSE: it does
\* not parse as StreamData. hasText / hasDelta: the key is present.
Data(valid, hasText, text, hasDelta, delta, phase, message) ==
    [valid |-> valid, hasText |-> hasText, text |-> text,
     hasDelta |-> hasDelta, delta |-> delta, phase |-> phase,
     message |-> message]

NoData == Data(FALSE, FALSE, <<>>, FALSE, <<>>, "", <<>>)
TextData(t) == Data(TRUE, TRUE, t, FALSE, <<>>, "", <<>>)
DeltaData(d) == Data(TRUE, FALSE, <<>>, TRUE, d, "", <<>>)
PhaseData(p, m) == Data(TRUE, FALSE, <<>>, FALSE, <<>>, p, m)
EmptyData == Data(TRUE, FALSE, <<>>, FALSE, <<>>, "", <<>>)

\* The payload of a res or an event. valid = FALSE: it does not parse.
Payload(valid, rid, stream, data) ==
    [valid |-> valid, runId |-> rid, stream |-> stream, data |-> data]

NoPayload == Payload(FALSE, "", "", NoData)

\* One message read from the connection. valid = FALSE: json.Unmarshal into
\* Response fails.
Envelope(valid, type, id, ok, hasError, errMsg, event, payload) ==
    [valid |-> valid, type |-> type, id |-> id, ok |-> ok,
     hasError |-> hasError, errMsg |-> errMsg, event |-> event,
     payload |-> payload]

NoEnvelope == Envelope(FALSE, "", "", FALSE, FALSE, <<>>, "", NoPayload)
Malformed == Envelope(FALSE, "?", "", FALSE, FALSE, <<>>, "", NoPayload)
Challenge ==
    Envelope(TRUE, "event", "", FALSE, FALSE, <<>>, "connect.challenge", NoPayload)
ResOK(id, payload) == Envelope(TRUE, "res", id, TRUE, FALSE, <<>>, "", payload)
ResFail(id, hasError, msg) ==
    Envelope(TRUE, "res", id, FALSE, hasError, msg, "", NoPayload)
AgentEvent(payload) == Envelope(TRUE, "event", "", FALSE, FALSE, <<>>, "agent", payload)
OtherEvent == Envelope(TRUE, "event", "", FALSE, FALSE, <<>>, "tick", NoPayload)

\* --------------------------------------------------------- pure helpers
\* fmt.Errorf(format) called with no operands, on a text whose characters
\* are letters or "%": "%%" prints "%", "%" followed by a letter x prints
\* "%!x(MISSING)", a trailing "%" prints "%!(NOVERB)".
RECURSIVE Errorf(_)
Errorf(s) ==
    IF s = <<>> THEN <<>>
    ELSE IF Head(s) # "%" THEN <<Head(s)>> \o Errorf(Tail(s))
    ELSE IF Len(s) = 1 THEN <<"%!(NOVERB)">>
    ELSE IF s[2] = "%" THEN <<"%">> \o Errorf(Tail(Tail(s)))
    ELSE <<"%!" \o s[2] \o "(MISSING)">> \o Errorf(Tail(Tail(s)))

\* json.Unmarshal(eventPayload.Data, &streamData): an absent key leaves the
\* field at its zero value, the empty string.
DecodeStreamData(d) ==
    [Text |-> IF d.hasText THEN d.text ELSE <<>>,
     Delta |-> IF d.hasDelta THEN d.delta ELSE <<>>,
     Phase |-> d.phase,
     Message |-> d.message]

\* The first-match chain of the reader: which handler takes the envelope.
IsChallenge(r) == r.type = "event" /\ r.event = "connect.challenge"
IsConnectRes(r) == r.type = "res" /\ r.id = "connect"
IsAgentRes(r) == r.type = "res" /\ r.id = "agent"
IsResetRes(r) == r.type = "res" /\ r.id = "reset"
IsAgentEvent(r) == r.type = "event" /\ r.event = "agent"

\* errMsg := "connect failed"; if resp.Error != nil { errMsg = resp.Error.Message }
ConnectErrMsg(r) == IF r.hasError THEN r.errMsg ELSE <<"connect failed">>
\* errMsg := "agent error"; if resp.Error != nil { errMsg = resp.Error.Message }
AgentErrMsg(r) == IF r.hasError THEN r.errMsg ELSE <<"agent error">>
\* errMsg := "reset failed"; if resp.Error != nil { errMsg = resp.Error.Message }
ResetErrMsg(r) == IF r.hasError THEN r.errMsg ELSE <<"reset failed">>
\* errMsg := "agent error"; if streamData.Message != "" { errMsg = streamData.Message }
LifecycleErrMsg(sd) == IF sd.Message # <<>> THEN sd.Message ELSE <<"agent error">>

\* Mutant of RunMatches: no event is filtered by its runId.
RunMatchesAny(rid, p) == p.runId = p.runId

\* if runID != "" && eventPayload.RunID != runID { continue }
RunMatches(rid, p) == ~(rid # "" /\ p.runId # rid)

\* Mutant of NextBuffer: a delta replaces the buffer instead of being
\* appended to it.
NextBufferDeltaReplaces(buf, sd) ==
    IF sd.Text # <<>> THEN sd.Text
    ELSE IF sd.Delta # <<>> THEN sd.Delta
    ELSE buf

\* if streamData.Text != "" { buffer = Text } else if streamData.Delta != "" { buffer += Delta }
NextBuffer(buf, sd) ==
    IF sd.Text # <<>> THEN sd.Text
    ELSE IF sd.Delta # <<>> THEN buf \o sd.Delta
    ELSE buf

\* The assistant branch's effect on the buffer: the data must parse first.
AssistantBuffer(buf, d) ==
    IF d.valid THEN NextBuffer(buf, DecodeStreamData(d)) ELSE buf

\* var payload AgentPayload; if json.Unmarshal(...) == nil { runID = payload.RunID }
CapturedRunID(rid, p) == IF p.valid THEN p.runId ELSE rid

\* Mutant of ProgressStreams: only assistant frames are forwarded.
ProgressStreamsAssistantOnly == {"assistant"}

ProgressStreams == {"assistant", "thought", "tool_call", "tool_result"}

\* What the reader goroutine holds between two reads.
\*   out: "continue" (next ReadMessage), "response" / "error" / "done"
\*   (a value sent on that channel, then return).
Local(rid, buf, snt, nts, frs) ==
    [runID |-> rid, buffer |-> buf, sent |-> snt, notes |-> nts,
     frames |-> frs, out |-> "continue", val |-> <<>>]

Signal(L, out, val) == [L EXCEPT !.out = out, !.val = val]

\* conn.WriteJSON(req): wok says whether the write succeeded.
WriteReq(L, id, wok, failMsg) ==
    IF wok THEN [L EXCEPT !.sent = Append(@, id)]
    ELSE Signal(L, "error", failMsg)

\* go onProgress(stream, string(eventPayload.Data)), when onProgress != nil
Notify(L, prog, stream, data) ==
    IF prog THEN [L EXCEPT !.notes = Append(@, [stream |-> stream, data |-> data])]
    ELSE L

\* Step 4 of AskClawdbot's reader: an agent event.
AskAgentEvent(L, p, prog) ==
    IF ~p.valid THEN L
    ELSE IF ~RunMatches(L.runID, p) THEN L
    ELSE IF p.stream = "assistant" THEN
        [Notify(L, prog, "assistant", p.data) EXCEPT
            !.buffer = AssistantBuffer(@, p.data),
            !.frames = Append(@, p.data)]
    ELSE IF p.stream \in ProgressStreams THEN Notify(L, prog, p.stream, p.data)
    ELSE IF p.stream = "lifecycle" /\ p.data.valid THEN
        LET sd == DecodeStreamData(p.data) IN
        IF sd.Phase = "end" THEN Signal(L, "response", L.buffer)
        ELSE IF sd.Phase = "error" THEN Signal(L, "error", Errorf(LifecycleErrMsg(sd)))
        ELSE L
    ELSE L

\* Steps 1 and 2, shared in shape by both readers: the challenge, and the
\* connect response of AskClawdbot.
OnChallenge(L, wok) ==
    WriteReq(L, "connect", wok, <<"failed to send connect request">>)

\* Mutant of AskConnectRes: the agent request is sent without looking at ok.
AskConnectResUnchecked(L, r, wok) ==
    WriteReq(L, "agent", wok, <<"failed to send agent request">>)

AskConnectRes(L, r, wok) ==
    IF ~r.ok THEN Signal(L, "error", Errorf(ConnectErrMsg(r)))
    ELSE WriteReq(L, "agent", wok, <<"failed to send agent request">>)

\* Step 3: the agent response.
AskAgentRes(L, r) ==
    IF ~r.ok THEN Signal(L, "error", Errorf(AgentErrMsg(r)))
    ELSE [L EXCEPT !.runID = CapturedRunID(@, r.payload)]

\* Mutant of AskHandle: a message that does not parse aborts the call.
AskHandleAbortsOnMalformed(L, r, wok, prog) ==
    IF ~r.valid THEN Signal(L, "error", <<"invalid message">>)
    ELSE IF IsChallenge(r) THEN OnChallenge(L, wok)
    ELSE IF IsConnectRes(r) THEN AskConnectRes(L, r, wok)
    ELSE IF IsAgentRes(r) THEN AskAgentRes(L, r)
    ELSE IF IsAgentEvent(r) THEN AskAgentEvent(L, r.payload, prog)
    ELSE L

\* One pass of the for loop of AskClawdbot's reader over message r.
AskHandle(L, r, wok, prog) ==
    IF ~r.valid THEN L
    ELSE IF IsChallenge(r) THEN OnChallenge(L, wok)
    ELSE IF IsConnectRes(r) THEN AskConnectRes(L, r, wok)
    ELSE IF IsAgentRes(r) THEN AskAgentRes(L, r)
    ELSE IF IsAgentEvent(r) THEN AskAgentEvent(L, r.payload, prog)
    ELSE L

\* ResetSession's connect response: the error of the response is not read.
ResetConnectRes(L, r, wok) ==
    IF ~r.ok THEN Signal(L, "error", <<"connect failed">>)
    ELSE WriteReq(L, "reset", wok, <<"failed to send reset request">>)

ResetRes(L, r) ==
    IF ~r.ok THEN Signal(L, "error", Errorf(ResetErrMsg(r)))
    ELSE Signal(L, "done", <<>>)

\* One pass of the for loop of ResetSession's reader over message r.
ResetHandle(L, r, wok) ==
    IF ~r.valid THEN L
    ELSE IF IsChallenge(r) THEN OnChallenge(L, wok)
    ELSE IF IsConnectRes(r) THEN ResetConnectRes(L, r, wok)
    ELSE IF IsResetRes(r) THEN ResetRes(L, r)
    ELSE L

\* ------------------------------------------------------- client actions
\* History of one call, kept beside the program's state:
\*   challenge, connectOK, agentOK, malformed: such a message has been read;
\*   foreign: an agent event of another run than the captured one was read;
\*   cause: the message on which the reader signalled an outcome;
\*   late: the reader signalled after the invocation had returned;
\*   stopAt: the number of messages read when the reader signalled.
NoHist == [challenge |-> FALSE, connectOK |-> FALSE, agentOK |-> FALSE,
           malformed |-> FALSE, foreign |-> FALSE, cause |-> NoEnvelope,
           late |-> FALSE, stopAt |-> 0]

Unparseable(e) == ~e.valid \/ (IsAgentEvent(e) /\ ~e.payload.valid)

\* An agent event that parses and names another run than rid.
Foreign(e, rid) ==
    /\ e.valid /\ IsAgentEvent(e) /\ e.payload.valid
    /\ rid # "" /\ e.payload.runId # rid

Observe(h, e, rid) ==
    [h EXCEPT !.challenge = @ \/ (e.valid /\ IsChallenge(e)),
              !.connectOK = @ \/ (e.valid /\ IsConnectRes(e) /\ e.ok),
              !.agentOK = @ \/ (e.valid /\ IsAgentRes(e) /\ e.ok),
              !.malformed = @ \/ Unparseable(e),
              !.foreign = @ \/ Foreign(e, rid)]

NoResult == [status |-> "none", val |-> <<>>]
Success(v) == [status |-> "ok", val |-> v]
Failure(m) == [status |-> "err", val |-> m]

TimeoutOf(c) == IF kind[c] = "ask" THEN AskTimeout ELSE ResetTimeout
TimeoutMsg(c) ==
    IF kind[c] = "ask" THEN <<"timeout waiting for response">>
    ELSE <<"timeout waiting for reset">>

InitClient ==
    /\ mu = 0
    /\ pc = [c \in Calls |-> "idle"]
    /\ kind = [c \in Calls |-> "none"]
    /\ conn = [c \in Calls |-> "none"]
    /\ rpc = [c \in Calls |-> "none"]
    /\ cur = [c \in Calls |-> NoEnvelope]
    /\ runID = [c \in Calls |-> ""]
    /\ buffer = [c \in Calls |-> <<>>]
    /\ responseChan = [c \in Calls |-> <<>>]
    /\ errorChan = [c \in Calls |-> <<>>]
    /\ doneChan = [c \in Calls |-> <<>>]
    /\ sent = [c \in Calls |-> <<>>]
    /\ onProgress = [c \in Calls |-> FALSE]
    /\ notes = [c \in Calls |-> <<>>]
    /\ result = [c \in Calls |-> NoResult]
    /\ timer = [c \in Calls |-> 0]
    /\ waited = [c \in Calls |-> 0]
    /\ nread = [c \in Calls |-> 0]
    /\ frames = [c \in Calls |-> <<>>]
    /\ hist = [c \in Calls |-> NoHist]

readerVars == <<rpc, cur, runID, buffer, responseChan, errorChan, doneChan,
                sent, notes, nread, frames, hist>>

\* A caller starts AskClawdbot (k = "ask") or ResetSession (k = "reset").
Enter(c, k, prog) ==
    /\ pc[c] = "idle"
    /\ pc' = [pc EXCEPT ![c] = "lock"]
    /\ kind' = [kind EXCEPT ![c] = k]
    /\ onProgress' = [onProgress EXCEPT ![c] = prog]
    /\ UNCHANGED <<mu, conn, result, timer, waited, readerVars>>

\* The invocation by a caller the model does not follow any further.
Invoke(c, k, prog) == Enter(c, k, prog) /\ UNCHANGED bridgeVars

\* Mutant of MutexFree: the lock is not taken.
MutexIgnored == TRUE

\* c.mu.Lock() returns only while no other call holds the mutex.
MutexFree == mu = 0

Lock(c) ==
    /\ pc[c] = "lock"
    /\ MutexFree
    /\ mu' = c
    /\ pc' = [pc EXCEPT ![c] = "dial"]
    /\ UNCHANGED <<kind, onProgress, conn, result, timer, waited, readerVars>>
    /\ UNCHANGED bridgeVars

\* Mutant of Return: the mutex is not released.
ReturnKeepsLock(c, r) ==
    /\ pc' = [pc EXCEPT ![c] = "done"]
    /\ result' = [result EXCEPT ![c] = r]
    /\ conn' = [conn EXCEPT ![c] = IF @ = "open" THEN "closed" ELSE @]
    /\ mu' = mu
    /\ UNCHANGED bridgeVars

\* The deferred calls of a return: conn.Close() when a connection was
\* opened, then c.mu.Unlock().
Return(c, r) ==
    /\ pc' = [pc EXCEPT ![c] = "done"]
    /\ result' = [result EXCEPT ![c] = r]
    /\ conn' = [conn EXCEPT ![c] = IF @ = "open" THEN "closed" ELSE @]
    /\ mu' = 0
    /\ UNCHANGED bridgeVars

\* websocket.DefaultDialer.Dial fails.
DialFail(c) ==
    /\ pc[c] = "dial"
    /\ Return(c, Failure(<<"failed to connect to gateway">>))
    /\ UNCHANGED <<kind, onProgress, timer, waited, readerVars>>

\* Dial succeeds: the channels are made, the reader goroutine is started and
\* the caller enters the select, which arms time.After.
DialOK(c) ==
    /\ pc[c] = "dial"
    /\ conn' = [conn EXCEPT ![c] = "open"]
    /\ rpc' = [rpc EXCEPT ![c] = "read"]
    /\ pc' = [pc EXCEPT ![c] = "wait"]
    /\ timer' = [timer EXCEPT ![c] = 0]
    /\ UNCHANGED <<mu, kind, onProgress, result, waited, cur, runID, buffer,
                   responseChan, errorChan, doneChan, sent, notes, nread,
                   frames, hist>>
    /\ UNCHANGED bridgeVars

\* conn.ReadMessage() returns the next message of the Gateway, one of E.
ReaderRead(c, E, n) ==
    /\ rpc[c] = "read"
    /\ conn[c] = "open"
    /\ nread[c] < n
    /\ \E e \in E :
        /\ cur' = [cur EXCEPT ![c] = e]
        /\ rpc' = [rpc EXCEPT ![c] = "proc"]
        /\ nread' = [nread EXCEPT ![c] = @ + 1]
        /\ hist' = [hist EXCEPT ![c] = Observe(@, e, runID[c])]
    /\ UNCHANGED <<mu, pc, kind, onProgress, conn, result, timer, waited,
                   runID, buffer, responseChan, errorChan, doneChan, sent,
                   notes, frames>>
    /\ UNCHANGED bridgeVars

\* Mutant of ReaderReadFail: the reader reports the failed read on errorChan
\* before it returns.
ReaderReadFailSignals(c) ==
    /\ rpc[c] = "read"
    /\ Len(errorChan[c]) < 1
    /\ rpc' = [rpc EXCEPT ![c] = "exit"]
    /\ errorChan' = [errorChan EXCEPT ![c] = Append(@, <<"read failed">>)]
    /\ UNCHANGED <<mu, pc, kind, onProgress, conn, result, timer, waited,
                   cur, runID, buffer, responseChan, doneChan,
                   sent, notes, nread, frames, hist>>
    /\ UNCHANGED bridgeVars

\* conn.ReadMessage() fails (the connection was closed by the deferred
\* conn.Close(), or dropped by the Gateway): the reader returns silently.
ReaderReadFail(c) ==
    /\ rpc[c] = "read"
    /\ rpc' = [rpc EXCEPT ![c] = "exit"]
    /\ UNCHANGED <<mu, pc, kind, onProgress, conn, result, timer, waited,
                   cur, runID, buffer, responseChan, errorChan, doneChan,
                   sent, notes, nread, frames, hist>>
    /\ UNCHANGED bridgeVars

\* A write on a connection the caller has closed fails.
WriteOutcomes(c) == IF conn[c] = "open" THEN BOOLEAN ELSE {FALSE}

\* The reader's locals after one pass over cur[c], and the value it sends on
\* a channel (capacity 1: the send blocks while the channel is full).
Apply(c, L) ==
    /\ runID' = [runID EXCEPT ![c] = L.runID]
    /\ buffer' = [buffer EXCEPT ![c] = L.buffer]
    /\ sent' = [sent EXCEPT ![c] = L.sent]
    /\ notes' = [notes EXCEPT ![c] = L.notes]
    /\ frames' = [frames EXCEPT ![c] = L.frames]
    /\ L.out = "response" => Len(responseChan[c]) < 1
    /\ L.out = "error" => Len(errorChan[c]) < 1
    /\ L.out = "done" => Len(doneChan[c]) < 1
    /\ responseChan' = [responseChan EXCEPT ![c] =
            IF L.out = "response" THEN Append(@, L.val) ELSE @]
    /\ errorChan' = [errorChan EXCEPT ![c] =
            IF L.out = "error" THEN Append(@, L.val) ELSE @]
    /\ doneChan' = [doneChan EXCEPT ![c] =
            IF L.out = "done" THEN Append(@, TRUE) ELSE @]
    /\ rpc' = [rpc EXCEPT ![c] = IF L.out = "continue" THEN "read" ELSE "exit"]
    /\ hist' = [hist EXCEPT ![c] =
            IF L.out = "continue" THEN @
            ELSE [@ EXCEPT !.cause = cur[c], !.late = (pc[c] = "done"),
                           !.stopAt = nread[c]]]
    /\ cur' = [cur EXCEPT ![c] = NoEnvelope]
    /\ UNCHANGED <<mu, pc, kind, onProgress, conn, result, timer, waited, nread>>
    /\ UNCHANGED bridgeVars

Locals(c) == Local(runID[c], buffer[c], sent[c], notes[c], frames[c])

\* Mutant of AskReaderProc: onProgress is called in the reader's own
\* goroutine, so the reader goes on only when every callback has returned.
AskReaderProcAfterProgress(c) ==
    /\ rpc[c] = "proc"
    /\ kind[c] = "ask"
    /\ ran = DOMAIN notes[c]
    /\ \E wok \in WriteOutcomes(c) :
        Apply(c, AskHandle(Locals(c), cur[c], wok, onProgress[c]))

AskReaderProc(c) ==
    /\ rpc[c] = "proc"
    /\ kind[c] = "ask"
    /\ \E wok \in WriteOutcomes(c) :
        Apply(c, AskHandle(Locals(c), cur[c], wok, onProgress[c]))

ResetReaderProc(c) ==
    /\ rpc[c] = "proc"
    /\ kind[c] = "reset"
    /\ \E wok \in WriteOutcomes(c) :
        Apply(c, ResetHandle(Locals(c), cur[c], wok))

\* select: case result := <-responseChan
ReturnResponse(c) ==
    /\ pc[c] = "wait"
    /\ responseChan[c] # <<>>
    /\ Return(c, Success(Head(responseChan[c])))
    /\ responseChan' = [responseChan EXCEPT ![c] = Tail(@)]
    /\ UNCHANGED <<kind, onProgress, timer, waited, rpc, cur, runID, buffer,
                   errorChan, doneChan, sent, notes, nread, frames, hist>>

\* select: case err := <-errorChan
ReturnError(c) ==
    /\ pc[c] = "wait"
    /\ errorChan[c] # <<>>
    /\ Return(c, Failure(Head(errorChan[c])))
    /\ errorChan' = [errorChan EXCEPT ![c] = Tail(@)]
    /\ UNCHANGED <<kind, onProgress, timer, waited, rpc, cur, runID, buffer,
                   responseChan, doneChan, sent, notes, nread, frames, hist>>

\* select: case <-doneChan (ResetSession)
ReturnDone(c) ==
    /\ pc[c] = "wait"
    /\ doneChan[c] # <<>>
    /\ Return(c, Success(<<>>))
    /\ doneChan' = [doneChan EXCEPT ![c] = Tail(@)]
    /\ UNCHANGED <<kind, onProgress, timer, waited, rpc, cur, runID, buffer,
                   responseChan, errorChan, sent, notes, nread, frames, hist>>

\* The duration after which the timer armed by the select fires.
TimerDue(c) == timer[c] >= TimeoutOf(c)

\* select: case <-time.After(...). The select was blocked, so the channel
\* that became ready first decided it: the timer wins only while nothing
\* has been sent on the other channels.
Timeout(c) ==
    /\ pc[c] = "wait"
    /\ responseChan[c] = <<>> /\ errorChan[c] = <<>> /\ doneChan[c] = <<>>
    /\ TimerDue(c)
    /\ Return(c, Failure(TimeoutMsg(c)))
    /\ UNCHANGED <<kind, onProgress, timer, waited, readerVars>>

\* The call is blocked in c.mu.Lock() behind the call that holds the mutex.
Queued(c) == pc[c] = "lock" /\ mu # 0

\* One tick of time passes. A due timer fires before time moves on.
Tick ==
    /\ \E c \in Calls : pc[c] = "wait" \/ (Queued(c) /\ waited[c] < MaxWaited)
    /\ \A c \in Calls : pc[c] = "wait" => timer[c] < TimeoutOf(c)
    /\ timer' = [c \in Calls |-> IF pc[c] = "wait" THEN timer[c] + 1 ELSE timer[c]]
    /\ waited' = [c \in Calls |->
            IF Queued(c) /\ waited[c] < MaxWaited THEN waited[c] + 1
            ELSE waited[c]]
    /\ UNCHANGED <<mu, pc, kind, onProgress, conn, result, readerVars>>
    /\ UNCHANGED bridgeVars

\* ------------------------------------------------- bridge: HandleMessage
\* Texts are sequences of tokens: a mention marker, a run of white space, a
\* word or a punctuation mark.
IsMention(tok) == tok \in {"@_user_1", "@_user_2"}

\* unicode.IsSpace, which strings.TrimSpace uses: the ideographic space
\* U+3000, written "fw ", is white space.
IsSpace(tok) == tok \in {" ", "fw "}

\* The class \s of package regexp: [\t\n\f\r ] and nothing else.
ReSpace(tok) == tok = " "

RECURSIVE DropSpace(_)
DropSpace(text) ==
    IF text # <<>> /\ ReSpace(Head(text)) THEN DropSpace(Tail(text)) ELSE text

\* regexp `@_user_\d+\s*` replaced by "": every mention marker goes, with
\* the white space that follows it.
RECURSIVE removeMentions(_)
removeMentions(text) ==
    IF text = <<>> THEN <<>>
    ELSE IF IsMention(Head(text)) THEN removeMentions(DropSpace(Tail(text)))
    ELSE <<Head(text)>> \o removeMentions(Tail(text))

RECURSIVE DropSpaceLeft(_)
DropSpaceLeft(text) ==
    IF text # <<>> /\ IsSpace(Head(text)) THEN DropSpaceLeft(Tail(text))
    ELSE text

RECURSIVE DropSpaceRight(_)
DropSpaceRight(text) ==
    IF text # <<>> /\ IsSpace(text[Len(text)])
    THEN DropSpaceRight(SubSeq(text, 1, Len(text) - 1))
    ELSE text

\* strings.TrimSpace
TrimSpace(text) == DropSpaceRight(DropSpaceLeft(text))

\* strings.ToLower, on the words of the model.
ToLower(tok) ==
    CASE tok = "Why" -> "why"
      [] tok = "Bot" -> "bot"
      [] OTHER -> tok

\* The Chinese words of the source are written in pinyin, the full-width
\* punctuation marks with the prefix "fw".
questionWords == {"why", "how", "what", "when", "where", "who", "help"}
actionVerbs == {"bang", "mafan", "qing", "nengfou", "keyi", "jieshi", "kankan",
                "paicha", "fenxi", "zongjie", "xie", "gai", "xiu", "cha",
                "duibi", "fanyi"}
botTriggers == {"alen", "clawdbot", "bot", "zhushou", "zhinengti"}

\* The class [\s,:...] of the trigger pattern: white space of class \s, comma,
\* colon, full-width comma and full-width colon.
TriggerSeparators == {" ", ",", ":", "fw,", "fw:"}

\* The class \w of package regexp: ASCII letters, digits and underscore. A
\* token that is a run of ASCII letters joins its neighbours of the same
\* kind into one longer run; Chinese characters and punctuation are not in
\* the class.
Letters == {"why", "Why", "how", "bot", "Bot", "hi", "x"}
IsWordChar(tok) == tok \in Letters

\* regexp `\bword\b` on the lowered text: the word stands at position i with
\* no character of class \w on either side.
MatchesWord(text, i) ==
    /\ ToLower(text[i]) \in questionWords
    /\ i = 1 \/ ~IsWordChar(text[i - 1])
    /\ i = Len(text) \/ ~IsWordChar(text[i + 1])

shouldRespondInGroup(text, mentions) ==
    \/ Len(mentions) > 0
    \/ text # <<>> /\ text[Len(text)] \in {"?", "fw?"}
    \/ \E i \in 1..Len(text) : MatchesWord(text, i)
    \/ \E i \in 1..Len(text) : text[i] \in actionVerbs
    \/ Len(text) >= 2 /\ ToLower(text[1]) \in botTriggers
                      /\ text[2] \in TriggerSeparators

\* No call of shouldRespondInGroup on its own.
IdlePolicy ==
    /\ groupText = <<>>
    /\ groupMentions = <<>>
    /\ respond = <<>>

\* The arguments of one call of shouldRespondInGroup: a text of up to
\* MaxTextLen tokens, and no mention or one.
PolicyTokens == {"why", "Why", "x", " ", "fw ", ",", "fw:", "?", "fw?", "bot",
                 "Bot", "bang", "ni"}
PolicyTexts == UNION {[1..n -> PolicyTokens] : n \in 0..MaxTextLen}
PolicyMentions == {<<>>, <<"@_user_1">>}

InitPolicy ==
    /\ groupText \in PolicyTexts
    /\ groupMentions \in PolicyMentions
    /\ respond = <<>>

\* The call of shouldRespondInGroup returns.
Decide ==
    /\ respond = <<>>
    /\ respond' = <<shouldRespondInGroup(groupText, groupMentions)>>
    /\ UNCHANGED <<groupText, groupMentions>>
    /\ UNCHANGED <<clientVars, dedupVars, unitVars, sessionVars>>

\* feishu.Message
Message(id, chat, chatType, content, mentions) ==
    [MessageID |-> id, ChatID |-> chat, ChatType |-> chatType,
     Content |-> content, Mentions |-> mentions]

NoMessage == Message("", "", "", <<>>, <<>>)

MessageIDs == {"", "m1", "m2"}
CachedIDs == MessageIDs \ {""}

\* No entry for the id in the cache.
Absent == -1

InitDedup ==
    /\ seenMessages = [id \in CachedIDs |-> Absent]
    /\ hpc = [h \in Handlers |-> "idle"]
    /\ hmsg = [h \in Handlers |-> NoMessage]
    /\ outcome = [h \in Handlers |-> "none"]
    /\ spawned = [id \in MessageIDs |-> 0]

\* messageCache.has
has(id) == seenMessages[id] # Absent

\* The chat platform delivers msg to HandleMessage.
Receive(h, msg) ==
    /\ hpc[h] = "idle"
    /\ \A g \in Handlers : g < h => hpc[g] # "idle"
    /\ hpc' = [hpc EXCEPT ![h] = "has"]
    /\ hmsg' = [hmsg EXCEPT ![h] = msg]
    /\ UNCHANGED <<seenMessages, outcome, spawned>>
    /\ UNCHANGED <<clientVars, unitVars, policyVars, sessionVars>>

\* if msg.MessageID != "" && b.seenMessages.has(msg.MessageID) { return nil }
CheckDuplicate(h) ==
    /\ hpc[h] = "has"
    /\ IF hmsg[h].MessageID # "" /\ has(hmsg[h].MessageID)
       THEN /\ hpc' = [hpc EXCEPT ![h] = "done"]
            /\ outcome' = [outcome EXCEPT ![h] = "duplicate"]
       ELSE /\ hpc' = [hpc EXCEPT ![h] = "add"]
            /\ UNCHANGED outcome
    /\ UNCHANGED <<seenMessages, hmsg, spawned>>
    /\ UNCHANGED <<clientVars, unitVars, policyVars, sessionVars>>

\* messageCache.add: mc.cache[messageID] = time.Now()
add(id) == [seenMessages EXCEPT ![id] = 0]

\* if msg.MessageID != "" { b.seenMessages.add(msg.MessageID) }
MarkSeen(h) ==
    /\ hpc[h] = "add"
    /\ seenMessages' = IF hmsg[h].MessageID # "" THEN add(hmsg[h].MessageID)
                       ELSE seenMessages
    /\ hpc' = [hpc EXCEPT ![h] = "text"]
    /\ UNCHANGED <<hmsg, outcome, spawned>>
    /\ UNCHANGED <<clientVars, unitVars, policyVars, sessionVars>>

\* The text HandleMessage hands to processMessage.
CleanText(msg) == TrimSpace(removeMentions(msg.Content))

\* Whether HandleMessage goes on to `go b.processMessage(msg.ChatID, text)`.
Filtered(msg) ==
    IF CleanText(msg) = <<>> THEN "empty"
    ELSE IF msg.ChatType = "group"
            /\ ~shouldRespondInGroup(CleanText(msg), msg.Mentions)
         THEN "notrigger"
    ELSE "spawned"

\* The rest of HandleMessage: the text is cleaned, a group message is
\* checked for a trigger, and the unit of work is started.
Dispatch(h) ==
    /\ hpc[h] = "text"
    /\ hpc' = [hpc EXCEPT ![h] = "done"]
    /\ outcome' = [outcome EXCEPT ![h] = Filtered(hmsg[h])]
    /\ spawned' = IF Filtered(hmsg[h]) = "spawned"
                  THEN [spawned EXCEPT ![hmsg[h].MessageID] = @ + 1]
                  ELSE spawned
    /\ UNCHANGED <<seenMessages, hmsg>>
    /\ UNCHANGED <<clientVars, unitVars, policyVars, sessionVars>>

Expired(id) == seenMessages[id] > DedupTTL

\* messageCache.cleanup, one firing of its ticker: every entry older than
\* the ttl is deleted.
Cleanup ==
    /\ \E id \in CachedIDs : Expired(id)
    /\ seenMessages' = [id \in CachedIDs |->
            IF Expired(id) THEN Absent ELSE seenMessages[id]]
    /\ spawned' = [id \in MessageIDs |->
            IF id \in CachedIDs /\ Expired(id) THEN 0 ELSE spawned[id]]
    /\ UNCHANGED <<hpc, hmsg, outcome>>
    /\ UNCHANGED <<clientVars, unitVars, policyVars, sessionVars>>

\* Time passes: the entries of the cache age (time.Now() - timestamp).
Age ==
    /\ \E id \in CachedIDs : has(id) /\ ~Expired(id)
    /\ seenMessages' = [id \in CachedIDs |->
            IF has(id) /\ ~Expired(id) THEN seenMessages[id] + 1
            ELSE seenMessages[id]]
    /\ UNCHANGED <<hpc, hmsg, outcome, spawned>>
    /\ UNCHANGED <<clientVars, unitVars, policyVars, sessionVars>>

\* What the chat platform delivers: a direct message with a text, a direct
\* message that is only a mention, a group message without a trigger, and
\* group messages with one (a mention, a question word).
MentionsOf(content) == SelectSeq(content, IsMention)

Deliveries ==
    {<<"p2p", <<"hi">>>>, <<"p2p", <<"@_user_1", " ">>>>, <<"group", <<"hi">>>>,
     <<"group", <<"Why", " ", "hi">>>>}

Messages ==
    {Message(id, "c1", d[1], d[2], MentionsOf(d[2])) :
        id \in MessageIDs, d \in Deliveries}

\* ------------------------------------------- bridge: the session key
\* Strings are sequences of tokens; fmt.Sprintf("feishu:%s", chatID) puts the
\* chat id behind the token "feishu:".
Units == 1..NumUnits

ChatIDs == {<<"c1">>, <<"c2">>, <<"c1", "c2">>}
SessionKeys == {<<>>, <<"ops">>, <<"feishu:", "c1">>, <<"c1">>}

\* No unit of work computing a session key.
IdleSession ==
    /\ sessionKey = <<>>
    /\ chatID = [u \in Units |-> <<>>]
    /\ spc = [u \in Units |-> "sent"]
    /\ askKey = [u \in Units |-> <<>>]
    /\ agentKey = [u \in Units |-> <<>>]

\* A Bridge built with some override, and one unit of work per message, each
\* with the chat id of its message.
InitSession ==
    /\ sessionKey \in SessionKeys
    /\ chatID \in [Units -> ChatIDs]
    /\ spc = [u \in Units |-> "start"]
    /\ askKey = [u \in Units |-> <<>>]
    /\ agentKey = [u \in Units |-> <<>>]

SessionKeyIgnoresOverride(override, chat) == <<"feishu:">> \o chat

\* sessionKey := b.sessionKey; if sessionKey == "" { sessionKey =
\* fmt.Sprintf("feishu:%s", chatID) }
SessionKeyOf(override, chat) ==
    IF override = <<>> THEN <<"feishu:">> \o chat ELSE override

\* processMessage calls b.clawdbotClient.AskClawdbot(text, sessionKey, ...).
CallWithKey(u) ==
    /\ spc[u] = "start"
    /\ spc' = [spc EXCEPT ![u] = "ask"]
    /\ askKey' = [askKey EXCEPT ![u] = SessionKeyOf(sessionKey, chatID[u])]
    /\ UNCHANGED <<sessionKey, chatID, agentKey>>
    /\ UNCHANGED <<clientVars, dedupVars, unitVars, policyVars>>

\* The reader of the call writes the agent request: AgentParams.SessionKey
\* is the argument sessionKey.
WriteAgentKey(u) ==
    /\ spc[u] = "ask"
    /\ spc' = [spc EXCEPT ![u] = "sent"]
    /\ agentKey' = [agentKey EXCEPT ![u] = askKey[u]]
    /\ UNCHANGED <<sessionKey, chatID, askKey>>
    /\ UNCHANGED <<clientVars, dedupVars, unitVars, policyVars>>

\* ------------------------------------------------ bridge: processMessage
\* The streaming processMessage, one unit of work. It makes its Gateway call
\* as call 1 of the client. Every callback body runs under the unit's mutex
\* from its first statement after the stream test to its last, so it is one
\* step.
NoID == 0

\* One call on the chat platform client: op is "send", "update" or "delete",
\* ok whether it succeeded, by the code that made it ("thinking",
\* "animation", "progress", "final").
FeishuCall(op, id, text, ok, by) ==
    [op |-> op, id |-> id, text |-> text, ok |-> ok, by |-> by]

\* The id SendMessage returns: a new one.
NewID(log) ==
    1 + Cardinality({i \in DOMAIN log : log[i].op = "send" /\ log[i].ok})

SendMessage(log, text, ok, by) ==
    Append(log, FeishuCall("send", IF ok THEN NewID(log) ELSE NoID, text, ok, by))
UpdateMessage(log, id, text, ok, by) ==
    Append(log, FeishuCall("update", id, text, ok, by))
DeleteMessage(log, id, ok, by) ==
    Append(log, FeishuCall("delete", id, <<>>, ok, by))

\* The thinking text followed by n dots.
ThinkingText(n) == <<"thinking">> \o [i \in 1..n |-> "."]

\* fmt.Sprintf("(system error)%v", err)
ErrorReply(err) == <<"(system error)">> \o err

InitUnit ==
    /\ upc = "idle"
    /\ thinkingMs = 0
    /\ done = FALSE
    /\ placeholderID = NoID
    /\ responseMessageID = NoID
    /\ thinkingDots = 0
    /\ thinkingTimer = "nil"
    /\ thinkingTicker = "nil"
    /\ thinkingStop = "nil"
    /\ animation = "none"
    /\ streamBuffer = <<>>
    /\ recent = FALSE
    /\ attempted = FALSE
    /\ ran = {}
    /\ feishu = <<>>
    /\ panicked = FALSE

Alive == ~panicked

\* processMessage up to its call of AskClawdbot: the thinking timer is armed
\* when thinkingMs > 0, and the call is made with onProgress.
UnitStart(ms) ==
    /\ Alive
    /\ upc = "idle"
    /\ Enter(1, "ask", TRUE)
    /\ upc' = "ask"
    /\ thinkingMs' = ms
    /\ thinkingTimer' = IF ms > 0 THEN "armed" ELSE "nil"
    /\ UNCHANGED <<done, placeholderID, responseMessageID, thinkingDots,
                   thinkingTicker, thinkingStop, animation, streamBuffer,
                   recent, attempted, ran, feishu, panicked>>
    /\ UNCHANGED <<dedupVars, policyVars, sessionVars>>

\* The state of the timer once its callback has run.
Fired == IF done THEN "void" ELSE IF pc[1] = "done" THEN "late" ELSE "fired"

ThinkingFireIgnoresDone ==
    /\ Alive
    /\ thinkingTimer = "armed"
    /\ thinkingTimer' = Fired
    /\ feishu' = SendMessage(feishu, ThinkingText(1), TRUE, "thinking")
    /\ placeholderID' = NewID(feishu)
    /\ thinkingDots' = 1
    /\ thinkingStop' = "open"
    /\ thinkingTicker' = "running"
    /\ animation' = "running"
    /\ UNCHANGED <<upc, thinkingMs, done, responseMessageID, streamBuffer,
                   recent, attempted, ran, panicked>>
    /\ UNCHANGED <<clientVars, dedupVars, policyVars, sessionVars>>

\* The callback of time.AfterFunc: the thinking message is sent and the
\* animation started, unless the unit is done.
ThinkingFire ==
    /\ Alive
    /\ thinkingTimer = "armed"
    /\ thinkingTimer' = Fired
    /\ IF done
       THEN UNCHANGED <<placeholderID, thinkingDots, thinkingStop,
                        thinkingTicker, animation, feishu>>
       ELSE \E ok \in BOOLEAN :
            /\ feishu' = SendMessage(feishu, ThinkingText(1), ok, "thinking")
            /\ IF ok
               THEN /\ placeholderID' = NewID(feishu)
                    /\ thinkingDots' = 1
                    /\ thinkingStop' = "open"
                    /\ thinkingTicker' = "running"
                    /\ animation' = "running"
               ELSE UNCHANGED <<placeholderID, thinkingDots, thinkingStop,
                                thinkingTicker, animation>>
    /\ UNCHANGED <<upc, thinkingMs, done, responseMessageID, streamBuffer,
                   recent, attempted, ran, panicked>>
    /\ UNCHANGED <<clientVars, dedupVars, policyVars, sessionVars>>

AnimationEdits ==
    Cardinality({i \in DOMAIN feishu : feishu[i].by = "animation"})

\* Mutant of Animate: a tick does not test done.
AnimateIgnoresDone ==
    /\ Alive
    /\ animation = "running"
    /\ IF placeholderID = NoID
       THEN /\ animation' = "exit"
            /\ UNCHANGED <<thinkingDots, feishu>>
       ELSE /\ AnimationEdits < MaxAnimTicks
            /\ thinkingDots' = (thinkingDots % 3) + 1
            /\ \E ok \in BOOLEAN :
                feishu' = UpdateMessage(feishu, placeholderID,
                                        ThinkingText((thinkingDots % 3) + 1),
                                        ok, "animation")
            /\ UNCHANGED animation
    /\ UNCHANGED <<upc, thinkingMs, done, placeholderID, responseMessageID,
                   thinkingTimer, thinkingTicker, thinkingStop, streamBuffer,
                   recent, attempted, ran, panicked>>
    /\ UNCHANGED <<clientVars, dedupVars, policyVars, sessionVars>>

\* The animation goroutine, case <-thinkingTicker.C (a tick, or one left in
\* the channel when the ticker was stopped).
Animate ==
    /\ Alive
    /\ animation = "running"
    /\ IF done \/ placeholderID = NoID
       THEN /\ animation' = "exit"
            /\ UNCHANGED <<thinkingDots, feishu>>
       ELSE /\ AnimationEdits < MaxAnimTicks
            /\ thinkingDots' = (thinkingDots % 3) + 1
            /\ \E ok \in BOOLEAN :
                feishu' = UpdateMessage(feishu, placeholderID,
                                        ThinkingText((thinkingDots % 3) + 1),
                                        ok, "animation")
            /\ UNCHANGED animation
    /\ UNCHANGED <<upc, thinkingMs, done, placeholderID, responseMessageID,
                   thinkingTimer, thinkingTicker, thinkingStop, streamBuffer,
                   recent, attempted, ran, panicked>>
    /\ UNCHANGED <<clientVars, dedupVars, policyVars, sessionVars>>

\* The animation goroutine, case <-thinkingStop.
AnimateStop ==
    /\ Alive
    /\ animation = "running"
    /\ thinkingStop = "closed"
    /\ animation' = "exit"
    /\ UNCHANGED <<upc, thinkingMs, done, placeholderID, responseMessageID,
                   thinkingDots, thinkingTimer, thinkingTicker, thinkingStop,
                   streamBuffer, recent, attempted, ran, feishu,
                   panicked>>
    /\ UNCHANGED <<clientVars, dedupVars, policyVars, sessionVars>>

\* if thinkingTicker != nil { thinkingTicker.Stop();
\*     if thinkingStop != nil { close(thinkingStop) } }
\* Closing a closed channel panics.
StopPanics == thinkingTicker # "nil" /\ thinkingStop = "closed"
StoppedTicker == IF thinkingTicker # "nil" THEN "stopped" ELSE thinkingTicker
ClosedStop ==
    IF thinkingTicker # "nil" /\ thinkingStop # "nil" THEN "closed"
    ELSE thinkingStop

\* onProgress accumulates as the client does: a text replaces, a delta is
\* appended.
Accumulate(buf, sd) ==
    IF sd.Text # <<>> THEN sd.Text ELSE buf \o sd.Delta

\* Mutant of ProgressSkips: onProgress does not test done.
ProgressSkipsIgnoresDone(n) ==
    \/ n.stream # "assistant"
    \/ ~n.data.valid
    \/ DecodeStreamData(n.data).Text = <<>> /\ DecodeStreamData(n.data).Delta = <<>>

\* Whether onProgress returns before touching any state.
ProgressSkips(n) ==
    \/ n.stream # "assistant"
    \/ done
    \/ ~n.data.valid
    \/ DecodeStreamData(n.data).Text = <<>> /\ DecodeStreamData(n.data).Delta = <<>>

\* The first chunk: the animation is stopped, the thinking placeholder
\* deleted and the response message created.
FirstChunk(text) ==
    /\ thinkingTicker' = StoppedTicker
    /\ IF StopPanics
       THEN /\ panicked' = TRUE
            /\ UNCHANGED <<thinkingStop, placeholderID, responseMessageID,
                           recent, attempted, feishu>>
       ELSE /\ thinkingStop' = ClosedStop
            /\ placeholderID' = NoID
            /\ \E okDelete, okSend \in BOOLEAN :
                LET log == IF placeholderID # NoID
                           THEN DeleteMessage(feishu, placeholderID, okDelete,
                                              "progress")
                           ELSE feishu
                IN /\ feishu' = SendMessage(log, text, okSend, "progress")
                   /\ responseMessageID' =
                        IF okSend THEN NewID(log) ELSE responseMessageID
                   /\ recent' = IF okSend THEN TRUE ELSE recent
                   /\ attempted' = IF okSend THEN TRUE ELSE attempted
            /\ UNCHANGED panicked

\* A later chunk: the response message is edited, unless the last edit is
\* less than updateInterval old.
LaterChunk(text) ==
    /\ IF recent
       THEN UNCHANGED <<feishu, recent, attempted>>
       ELSE \E ok \in BOOLEAN :
            /\ feishu' = UpdateMessage(feishu, responseMessageID, text, ok,
                                       "progress")
            /\ recent' = IF ok THEN TRUE ELSE recent
            /\ attempted' = TRUE
    /\ UNCHANGED <<placeholderID, responseMessageID, thinkingTicker,
                   thinkingStop, panicked>>

\* One of the goroutines started by `go onProgress(stream, data)` runs.
OnProgress(i) ==
    /\ Alive
    /\ i \in DOMAIN notes[1]
    /\ i \notin ran
    /\ ran' = ran \cup {i}
    /\ IF ProgressSkips(notes[1][i])
       THEN UNCHANGED <<streamBuffer, placeholderID, responseMessageID,
                        thinkingTicker, thinkingStop, recent, attempted,
                        feishu, panicked>>
       ELSE LET text == Accumulate(streamBuffer, DecodeStreamData(notes[1][i].data))
            IN /\ streamBuffer' = text
               /\ IF responseMessageID = NoID THEN FirstChunk(text)
                  ELSE LaterChunk(text)
    /\ UNCHANGED <<upc, thinkingMs, done, thinkingDots, thinkingTimer, animation>>
    /\ UNCHANGED <<clientVars, dedupVars, policyVars, sessionVars>>

\* updateInterval (300 ms) passes after the last write to the response
\* message, made or tried.
IntervalElapses ==
    /\ Alive
    /\ recent \/ attempted
    /\ recent' = FALSE
    /\ attempted' = FALSE
    /\ UNCHANGED <<upc, thinkingMs, done, placeholderID, responseMessageID,
                   thinkingDots, thinkingTimer, thinkingTicker, thinkingStop,
                   animation, streamBuffer, ran, feishu, panicked>>
    /\ UNCHANGED <<clientVars, dedupVars, policyVars, sessionVars>>

\* AskClawdbot has returned: done is set under the mutex and the animation
\* is stopped.
MarkDone ==
    /\ Alive
    /\ upc = "ask"
    /\ pc[1] = "done"
    /\ done' = TRUE
    /\ thinkingTicker' = StoppedTicker
    /\ IF StopPanics
       THEN /\ panicked' = TRUE
            /\ UNCHANGED <<thinkingStop, upc>>
       ELSE /\ thinkingStop' = ClosedStop
            /\ upc' = "final"
            /\ UNCHANGED panicked
    /\ UNCHANGED <<thinkingMs, placeholderID, responseMessageID, thinkingDots,
                   thinkingTimer, animation, streamBuffer, recent, attempted, ran, feishu>>
    /\ UNCHANGED <<clientVars, dedupVars, policyVars, sessionVars>>

\* reply, err of the call, after strings.TrimSpace.
Reply ==
    TrimSpace(IF result[1].status = "err" THEN ErrorReply(result[1].val)
              ELSE result[1].val)

NoReply(reply) == reply = <<>> \/ reply = <<"NO_REPLY">>

\* The finalization: nothing is sent for an empty reply or NO_REPLY and the
\* placeholders are deleted; otherwise the response message gets its final
\* edit, or the thinking placeholder is deleted and the reply sent, or the
\* reply is sent.
FinalCalls(reply, ok1, ok2) ==
    IF NoReply(reply) THEN
        LET log == IF placeholderID # NoID
                   THEN DeleteMessage(feishu, placeholderID, ok1, "final")
                   ELSE feishu
        IN IF responseMessageID # NoID
           THEN DeleteMessage(log, responseMessageID, ok2, "final")
           ELSE log
    ELSE IF responseMessageID # NoID THEN
        UpdateMessage(feishu, responseMessageID, reply, ok1, "final")
    ELSE IF placeholderID # NoID THEN
        SendMessage(DeleteMessage(feishu, placeholderID, ok1, "final"),
                    reply, ok2, "final")
    ELSE SendMessage(feishu, reply, ok1, "final")

\* if timer != nil { timer.Stop() }, then the finalization. A callback of
\* the timer that runs between MarkDone and this finds done set.
Finalize ==
    /\ Alive
    /\ upc = "final"
    /\ upc' = "end"
    /\ thinkingTimer' = IF thinkingTimer = "armed" THEN "stopped"
                        ELSE thinkingTimer
    /\ \E ok1, ok2 \in BOOLEAN : feishu' = FinalCalls(Reply, ok1, ok2)
    /\ UNCHANGED <<thinkingMs, done, placeholderID, responseMessageID,
                   thinkingDots, thinkingTicker, thinkingStop,
                   animation, streamBuffer, recent, attempted, ran, panicked>>
    /\ UNCHANGED <<clientVars, dedupVars, policyVars, sessionVars>>

\* ------------------------------- bridge: processMessage, without streaming
\* The processMessage of the dispatcher that does not stream: it calls
\* AskClawdbot without a progress callback, and its thinking timer sends one
\* message and starts no animation. It uses placeholderID, done, the timer
\* and the log of the calls on the chat platform.
PlainThinkingText == <<"thinking", "...">>

PlainStart(ms) ==
    /\ upc = "idle"
    /\ Enter(1, "ask", FALSE)
    /\ upc' = "ask"
    /\ thinkingMs' = ms
    /\ thinkingTimer' = IF ms > 0 THEN "armed" ELSE "nil"
    /\ UNCHANGED <<done, placeholderID, responseMessageID, thinkingDots,
                   thinkingTicker, thinkingStop, animation, streamBuffer,
                   recent, attempted, ran, feishu, panicked>>
    /\ UNCHANGED <<dedupVars, policyVars, sessionVars>>

\* The callback of time.AfterFunc: the thinking message is sent, unless the
\* unit is done.
PlainThinkingFire ==
    /\ thinkingTimer = "armed"
    /\ thinkingTimer' = Fired
    /\ IF done
       THEN UNCHANGED <<placeholderID, feishu>>
       ELSE \E ok \in BOOLEAN :
            /\ feishu' = SendMessage(feishu, PlainThinkingText, ok, "thinking")
            /\ placeholderID' = IF ok THEN NewID(feishu) ELSE placeholderID
    /\ UNCHANGED <<upc, thinkingMs, done, responseMessageID, thinkingDots,
                   thinkingTicker, thinkingStop, animation, streamBuffer,
                   recent, attempted, ran, panicked>>
    /\ UNCHANGED <<clientVars, dedupVars, policyVars, sessionVars>>

\* AskClawdbot has returned: done is set under the mutex.
PlainMarkDone ==
    /\ upc = "ask"
    /\ pc[1] = "done"
    /\ done' = TRUE
    /\ upc' = "final"
    /\ UNCHANGED <<thinkingMs, placeholderID, responseMessageID, thinkingDots,
                   thinkingTimer, thinkingTicker, thinkingStop, animation,
                   streamBuffer, recent, attempted, ran, feishu, panicked>>
    /\ UNCHANGED <<clientVars, dedupVars, policyVars, sessionVars>>

\* Mutant of PlainFinalCalls: the reply is sent as a new message after the
\* edit, failed or not.
PlainFinalCallsAlwaysSends(reply, ok1, ok2) ==
    IF NoReply(reply) THEN
        IF placeholderID # NoID
        THEN DeleteMessage(feishu, placeholderID, ok1, "final")
        ELSE feishu
    ELSE IF placeholderID # NoID THEN
        SendMessage(UpdateMessage(feishu, placeholderID, reply, ok1, "final"),
                    reply, ok2, "final")
    ELSE SendMessage(feishu, reply, ok1, "final")

\* Nothing is sent for an empty reply or NO_REPLY and the placeholder is
\* deleted; otherwise the placeholder is edited to hold the reply, and the
\* reply is sent as a new message when there is no placeholder or the edit
\* failed.
PlainFinalCalls(reply, ok1, ok2) ==
    IF NoReply(reply) THEN
        IF placeholderID # NoID
        THEN DeleteMessage(feishu, placeholderID, ok1, "final")
        ELSE feishu
    ELSE IF placeholderID # NoID THEN
        IF ok1
        THEN UpdateMessage(feishu, placeholderID, reply, TRUE, "final")
        ELSE SendMessage(UpdateMessage(feishu, placeholderID, reply, FALSE,
                                       "final"),
                         reply, ok2, "final")
    ELSE SendMessage(feishu, reply, ok1, "final")

\* if timer != nil { timer.Stop() }, then the reply is delivered.
PlainFinalize ==
    /\ upc = "final"
    /\ upc' = "end"
    /\ thinkingTimer' = IF thinkingTimer = "armed" THEN "stopped"
                        ELSE thinkingTimer
    /\ \E ok1, ok2 \in BOOLEAN : feishu' = PlainFinalCalls(Reply, ok1, ok2)
    /\ UNCHANGED <<thinkingMs, done, placeholderID, responseMessageID,
                   thinkingDots, thinkingTicker, thinkingStop,
                   animation, streamBuffer, recent, attempted, ran, panicked>>
    /\ UNCHANGED <<clientVars, dedupVars, policyVars, sessionVars>>

\* ------------------------------------------------ what the Gateway sends
\* Messages of the Gateway's error objects and lifecycle error frames.
GatewayMsgs == {<<"q">>, <<"%", "q">>}

ErrorResponses(id) ==
    {ResFail(id, FALSE, <<>>)} \cup {ResFail(id, TRUE, m) : m \in GatewayMsgs}

StreamFrames ==
    {<<"assistant", TextData(<<"A">>)>>, <<"assistant", DeltaData(<<"B">>)>>,
     <<"thought", EmptyData>>,
     <<"lifecycle", PhaseData("end", <<>>)>>,
     <<"lifecycle", PhaseData("start", <<>>)>>,
     <<"lifecycle", NoData>>}
    \cup {<<"lifecycle", PhaseData("error", m)>> : m \in {<<>>} \cup GatewayMsgs}

\* Frames of another run than the one the agent response names.
OtherRunFrames ==
    {<<"assistant", TextData(<<"A">>)>>, <<"lifecycle", PhaseData("end", <<>>)>>,
     <<"lifecycle", PhaseData("error", <<>>)>>}

ProtocolEnvelopes ==
    {Malformed, Challenge, OtherEvent, AgentEvent(NoPayload)}
    \cup {ResOK("connect", NoPayload), ResOK("reset", NoPayload), ResOK("agent", NoPayload)}
    \cup {ResOK("agent", Payload(TRUE, r, "", NoData)) : r \in {"", "r1"}}
    \cup ErrorResponses("connect") \cup ErrorResponses("agent")
    \cup ErrorResponses("reset")
    \cup {AgentEvent(Payload(TRUE, "r1", f[1], f[2])) : f \in StreamFrames}
    \cup {AgentEvent(Payload(TRUE, "r2", f[1], f[2])) : f \in OtherRunFrames}

\* The data of assistant frames: each of text and delta absent, present and
\* empty, or present with characters; and data that does not parse.
TextFields == {<<FALSE, <<>>>>, <<TRUE, <<>>>>, <<TRUE, <<"A">>>>}
DeltaFields == {<<FALSE, <<>>>>, <<TRUE, <<>>>>, <<TRUE, <<"B">>>>, <<TRUE, <<"C">>>>}

AssistantData ==
    {NoData} \cup {Data(TRUE, t[1], t[2], d[1], d[2], "", <<>>) :
                      t \in TextFields, d \in DeltaFields}

\* Frames of the other streams: a thought, a tool call and a tool result
\* with data, and a lifecycle frame that is neither end nor error.
SideFrames ==
    {<<"thought", TextData(<<"T">>)>>, <<"tool_call", DeltaData(<<"C">>)>>,
     <<"tool_result", EmptyData>>, <<"lifecycle", PhaseData("start", <<>>)>>}

StreamEnvelopes ==
    {AgentEvent(Payload(TRUE, "r1", "assistant", d)) : d \in AssistantData}
    \cup {AgentEvent(Payload(TRUE, "r1", "lifecycle", PhaseData("end", <<>>)))}
    \cup {AgentEvent(Payload(TRUE, "r1", f[1], f[2])) : f \in SideFrames}

\* What the Gateway sends to the call of a unit of work.
UnitEnvelopes ==
    {AgentEvent(Payload(TRUE, "r1", "assistant", TextData(<<"A">>))),
     AgentEvent(Payload(TRUE, "r1", "assistant", DeltaData(<<"B">>))),
     AgentEvent(Payload(TRUE, "r1", "assistant", TextData(<<"NO_REPLY">>))),
     AgentEvent(Payload(TRUE, "r1", "lifecycle", PhaseData("end", <<>>))),
     AgentEvent(Payload(TRUE, "r1", "lifecycle", PhaseData("error", <<>>))),
     ResFail("agent", TRUE, <<"q">>), ResFail("connect", FALSE, <<>>)}

\* What the Gateway sends to a call that resolves at once: a chunk, the end
\* of the run, a failure of the run.
QuickEnvelopes ==
    {AgentEvent(Payload(TRUE, "r1", "assistant", TextData(<<"A">>))),
     AgentEvent(Payload(TRUE, "r1", "lifecycle", PhaseData("end", <<>>))),
     AgentEvent(Payload(TRUE, "r1", "lifecycle", PhaseData("error", <<>>)))}

\* What the Gateway sends to a call whose reply is streamed: a text, a
\* delta, the end of the run.
ChunkEnvelopes ==
    {AgentEvent(Payload(TRUE, "r1", "assistant", TextData(<<"A">>))),
     AgentEvent(Payload(TRUE, "r1", "assistant", DeltaData(<<"B">>))),
     AgentEvent(Payload(TRUE, "r1", "lifecycle", PhaseData("end", <<>>)))}

\* --------------------------------------------------------- specifications
\* One invocation on the client, every envelope of the protocol.
NextCall ==
    \/ \E k \in {"ask", "reset"}, prog \in BOOLEAN : Invoke(1, k, prog)
    \/ Lock(1)
    \/ DialFail(1)
    \/ DialOK(1)
    \/ ReaderRead(1, ProtocolEnvelopes, MaxEnvelopes)
    \/ ReaderReadFail(1)
    \/ AskReaderProc(1)
    \/ ResetReaderProc(1)
    \/ ReturnResponse(1)
    \/ ReturnError(1)
    \/ ReturnDone(1)
    \/ Timeout(1)
    \/ Tick

\* One AskClawdbot invocation that is sent assistant frames of every shape,
\* and the end of the run.
NextStream ==
    \/ \E prog \in BOOLEAN : Invoke(1, "ask", prog)
    \/ Lock(1)
    \/ DialOK(1)
    \/ ReaderRead(1, StreamEnvelopes, MaxFrames)
    \/ AskReaderProc(1)
    \/ ReturnResponse(1)

\* Several invocations on the one client; the Gateway stays silent, answers
\* the handshake, or resolves the call.
ClientEnvelopes ==
    {Challenge, ResOK("reset", NoPayload),
     AgentEvent(Payload(TRUE, "r1", "lifecycle", PhaseData("end", <<>>)))}

\* The slots of Calls are interchangeable: an invocation takes the lowest
\* free one.
LowestFree(c) == \A d \in Calls : d < c => pc[d] # "idle"

\* An invocation that has returned and whose reader goroutine has ended has
\* no state left: its locals are gone and its slot is free for a later
\* invocation.
Ended(c) == pc[c] = "done" /\ rpc[c] \in {"none", "exit"}

Forget(c) ==
    /\ Ended(c)
    /\ pc' = [pc EXCEPT ![c] = "idle"]
    /\ kind' = [kind EXCEPT ![c] = "none"]
    /\ conn' = [conn EXCEPT ![c] = "none"]
    /\ rpc' = [rpc EXCEPT ![c] = "none"]
    /\ cur' = [cur EXCEPT ![c] = NoEnvelope]
    /\ runID' = [runID EXCEPT ![c] = ""]
    /\ buffer' = [buffer EXCEPT ![c] = <<>>]
    /\ responseChan' = [responseChan EXCEPT ![c] = <<>>]
    /\ errorChan' = [errorChan EXCEPT ![c] = <<>>]
    /\ doneChan' = [doneChan EXCEPT ![c] = <<>>]
    /\ sent' = [sent EXCEPT ![c] = <<>>]
    /\ onProgress' = [onProgress EXCEPT ![c] = FALSE]
    /\ notes' = [notes EXCEPT ![c] = <<>>]
    /\ result' = [result EXCEPT ![c] = NoResult]
    /\ timer' = [timer EXCEPT ![c] = 0]
    /\ waited' = [waited EXCEPT ![c] = 0]
    /\ nread' = [nread EXCEPT ![c] = 0]
    /\ frames' = [frames EXCEPT ![c] = <<>>]
    /\ hist' = [hist EXCEPT ![c] = NoHist]
    /\ UNCHANGED mu
    /\ UNCHANGED bridgeVars

\* What is left of an invocation that has returned (its reader's last
\* steps on the closed connection, then Forget) touches only that
\* invocation's own locals and commutes with every step of the others: it is
\* taken first.
Settled == \A d \in Calls : pc[d] # "done"
Turn(c) == Settled \/ pc[c] = "done"

NextClient ==
    \/ \E c \in Calls, k \in {"ask", "reset"} :
            Settled /\ LowestFree(c) /\ Invoke(c, k, TRUE)
    \/ \E c \in Calls : Settled /\ Lock(c)
    \/ \E c \in Calls : Settled /\ DialFail(c)
    \/ \E c \in Calls : Settled /\ DialOK(c)
    \/ \E c \in Calls : Settled /\ ReaderRead(c, ClientEnvelopes, MaxClientEnvelopes)
    \/ \E c \in Calls : Turn(c) /\ ReaderReadFail(c)
    \/ \E c \in Calls : Turn(c) /\ AskReaderProc(c)
    \/ \E c \in Calls : Turn(c) /\ ResetReaderProc(c)
    \/ \E c \in Calls : Settled /\ ReturnResponse(c)
    \/ \E c \in Calls : Settled /\ ReturnError(c)
    \/ \E c \in Calls : Settled /\ ReturnDone(c)
    \/ \E c \in Calls : Settled /\ Timeout(c)
    \/ \E c \in Calls : Forget(c)
    \/ Settled /\ Tick

\* HandleMessage invocations on one Bridge, and the sweeps of its cache.
NextDedup ==
    \/ \E h \in Handlers, msg \in Messages : Receive(h, msg)
    \/ \E h \in Handlers : CheckDuplicate(h)
    \/ \E h \in Handlers : MarkSeen(h)
    \/ \E h \in Handlers : Dispatch(h)
    \/ Cleanup
    \/ Age

\* One unit of work: processMessage, its timer, animation and progress
\* goroutines, and its call on the client.
NextUnit ==
    \/ \E ms \in {0, 1} : UnitStart(ms)
    \/ Alive /\ Lock(1)
    \/ Alive /\ DialFail(1)
    \/ Alive /\ DialOK(1)
    \/ Alive /\ ReaderRead(1, UnitEnvelopes, MaxUnitEnvelopes)
    \/ Alive /\ ReaderReadFail(1)
    \/ Alive /\ AskReaderProc(1)
    \/ Alive /\ ReturnResponse(1)
    \/ Alive /\ ReturnError(1)
    \/ Alive /\ Timeout(1)
    \/ Alive /\ Tick
    \/ ThinkingFire
    \/ Animate
    \/ AnimateStop
    \/ \E i \in 1..MaxUnitEnvelopes : OnProgress(i)
    \/ IntervalElapses
    \/ MarkDone
    \/ Finalize

\* One unit of work whose call is answered or fails without a timeout: the
\* thinking timer against the return of the call.
NextThinking ==
    \/ \E ms \in {0, 1} : UnitStart(ms)
    \/ Alive /\ Lock(1)
    \/ Alive /\ DialOK(1)
    \/ Alive /\ ReaderRead(1, QuickEnvelopes, MaxQuickEnvelopes)
    \/ Alive /\ AskReaderProc(1)
    \/ Alive /\ ReturnResponse(1)
    \/ Alive /\ ReturnError(1)
    \/ ThinkingFire
    \/ Animate
    \/ AnimateStop
    \/ \E i \in 1..MaxQuickEnvelopes : OnProgress(i)
    \/ IntervalElapses
    \/ MarkDone
    \/ Finalize

\* One unit of work without a thinking delay whose reply is streamed: the
\* progress callbacks against the update interval.
NextChunks ==
    \/ UnitStart(0)
    \/ Alive /\ Lock(1)
    \/ Alive /\ DialOK(1)
    \/ Alive /\ ReaderRead(1, ChunkEnvelopes, MaxChunks)
    \/ Alive /\ AskReaderProc(1)
    \/ Alive /\ ReturnResponse(1)
    \/ \E i \in 1..MaxChunks : OnProgress(i)
    \/ IntervalElapses
    \/ MarkDone
    \/ Finalize

\* One unit of work of the dispatcher that does not stream.
NextPlain ==
    \/ \E ms \in {0, 1} : PlainStart(ms)
    \/ Lock(1)
    \/ DialOK(1)
    \/ ReaderRead(1, QuickEnvelopes, MaxQuickEnvelopes)
    \/ AskReaderProc(1)
    \/ ReturnResponse(1)
    \/ ReturnError(1)
    \/ PlainThinkingFire
    \/ PlainMarkDone
    \/ PlainFinalize

Init == InitClient /\ InitDedup /\ InitUnit /\ IdlePolicy /\ IdleSession

InitTrigger ==
    InitClient /\ InitDedup /\ InitUnit /\ InitPolicy /\ IdleSession

InitKeys == InitClient /\ InitDedup /\ InitUnit /\ IdlePolicy /\ InitSession

NextKeys ==
    \/ \E u \in Units : CallWithKey(u)
    \/ \E u \in Units : WriteAgentKey(u)

NextTrigger == Decide

Spec == Init /\ [][NextCall]_vars

SpecClient == Init /\ [][NextClient]_vars

\* Scheduling of the invocations on one client. A sync.Mutex hands the lock
\* to a waiter that has been starved (strong fairness of Lock, for each
\* invocation); Dial returns; a select with a ready case is taken; the
\* reader goroutine is scheduled when it holds a message, and its
\* ReadMessage returns an error once the connection has been closed; time
\* passes. Only the holder of the mutex dials or waits, so that one
\* condition covers every invocation.
FairClient ==
    /\ \A c \in Calls : SF_vars(Settled /\ Lock(c))
    /\ WF_vars(\E c \in Calls : Settled /\ (DialFail(c) \/ DialOK(c)))
    /\ WF_vars(\E c \in Calls :
            Settled /\ (ReturnResponse(c) \/ ReturnError(c) \/ ReturnDone(c)
                        \/ Timeout(c)))
    /\ WF_vars(\E c \in Calls :
            Turn(c) /\ (AskReaderProc(c) \/ ResetReaderProc(c)))
    /\ WF_vars(\E c \in Calls :
            Turn(c) /\ conn[c] = "closed" /\ ReaderReadFail(c))
    /\ WF_vars(\E c \in Calls : Forget(c))
    /\ WF_vars(Settled /\ Tick)

SpecClientFair == SpecClient /\ FairClient
SpecStream == Init /\ [][NextStream]_vars
SpecDedup == Init /\ [][NextDedup]_vars
SpecUnit == Init /\ [][NextUnit]_vars
SpecThinking == Init /\ [][NextThinking]_vars
SpecChunks == Init /\ [][NextChunks]_vars
SpecPlain == Init /\ [][NextPlain]_vars
SpecTrigger == InitTrigger /\ [][NextTrigger]_vars
SpecKeys == InitKeys /\ [][NextKeys]_vars

\* ------------------------------------------------------------------ claims
Range(f) == {f[i] : i \in DOMAIN f}

\* C3: within one AskClawdbot call the connect request is written only
\* after a connect.challenge event has been received, and the agent request
\* only after a res with id "connect" and ok:true has been received.
HandshakeOrder ==
    \A c \in Calls : kind[c] = "ask" =>
        /\ "connect" \in Range(sent[c]) => hist[c].challenge
        /\ "agent" \in Range(sent[c]) => hist[c].connectOK

HandshakeOrderWitness ==
    kind[1] = "ask" /\ sent[1] = <<"connect", "agent">>

\* The reply buffer as the frames of a call determine it: a frame with a
\* non-empty text replaces it, otherwise a non-empty delta is appended;
\* a frame whose data does not parse changes nothing.
RECURSIVE FoldFrames(_)
FoldFrames(fs) ==
    IF fs = <<>> THEN <<>>
    ELSE LET prev == FoldFrames(SubSeq(fs, 1, Len(fs) - 1))
             f == fs[Len(fs)]
         IN IF ~f.valid THEN prev
            ELSE IF f.hasText /\ f.text # <<>> THEN f.text
            ELSE IF f.hasDelta /\ f.delta # <<>> THEN prev \o f.delta
            ELSE prev

\* C4 as stated: the reply buffer is the left fold over the assistant frames
\* the call accepted, in arrival order, where a frame carrying text replaces
\* the buffer with that text and a frame carrying delta appends the delta.
RECURSIVE FoldCarried(_)
FoldCarried(fs) ==
    IF fs = <<>> THEN <<>>
    ELSE LET prev == FoldCarried(SubSeq(fs, 1, Len(fs) - 1))
             f == fs[Len(fs)]
         IN IF ~f.valid THEN prev
            ELSE IF f.hasText THEN f.text
            ELSE IF f.hasDelta THEN prev \o f.delta
            ELSE prev

BufferIsFoldOfCarried == \A c \in Calls : buffer[c] = FoldCarried(frames[c])

\* C4 as the code has it: the reply buffer is the left fold over the
\* assistant frames the call accepted, in arrival order, where a frame with
\* a non-empty text replaces the buffer with that text, and a frame without
\* one but with a non-empty delta appends the delta; in particular the
\* frames [text "A", delta "B", delta "C"] leave the buffer "ABC".
BufferIsFold ==
    /\ \A c \in Calls : buffer[c] = FoldFrames(frames[c])
    /\ FoldFrames(<<TextData(<<"A">>), DeltaData(<<"B">>), DeltaData(<<"C">>)>>)
            = <<"A", "B", "C">>

BufferIsFoldWitness ==
    /\ frames[1] = <<TextData(<<"A">>), DeltaData(<<"B">>), DeltaData(<<"C">>)>>
    /\ buffer[1] = <<"A", "B", "C">>

IsLifecycle(e, phase) ==
    /\ e.valid /\ IsAgentEvent(e) /\ e.payload.valid
    /\ e.payload.stream = "lifecycle"
    /\ e.payload.data.valid /\ e.payload.data.phase = phase

\* C5: when an accepted lifecycle frame with phase "end" is processed, the
\* reader stops (no later envelope is read or processed), the buffer stays
\* what the frames before it made it, and the invocation returns success
\* with exactly that buffer.
EndReturnsBuffer ==
    \A c \in Calls : IsLifecycle(hist[c].cause, "end") =>
        /\ rpc[c] = "exit"
        /\ nread[c] = hist[c].stopAt
        /\ buffer[c] = FoldFrames(frames[c])
        /\ pc[c] = "wait" => responseChan[c] = <<buffer[c]>>
        /\ pc[c] = "done" => result[c] = Success(buffer[c])

\* The same for the calls that were still waiting in the select when the
\* reader processed the frame (hist.late: the call had returned before).
EndResolves ==
    \A c \in Calls : IsLifecycle(hist[c].cause, "end") =>
        /\ rpc[c] = "exit"
        /\ nread[c] = hist[c].stopAt
        /\ buffer[c] = FoldFrames(frames[c])
        /\ (pc[c] = "wait" /\ ~hist[c].late) => responseChan[c] = <<buffer[c]>>
        /\ (pc[c] = "done" /\ ~hist[c].late) => result[c] = Success(buffer[c])

EndResolvesWitness ==
    /\ IsLifecycle(hist[1].cause, "end")
    /\ pc[1] = "done"
    /\ result[1] = Success(<<"A", "B">>)
    /\ nread[1] < MaxEnvelopes

\* C6: an agent response with ok:false, or an accepted lifecycle frame with
\* phase "error", makes AskClawdbot return an error whose message is the
\* Gateway-supplied message when one is present and "agent error" otherwise.
IsAgentFailure(e) ==
    \/ e.valid /\ IsAgentRes(e) /\ ~e.ok
    \/ IsLifecycle(e, "error")

SuppliedAgentMsg(e) ==
    IF IsAgentRes(e)
    THEN (IF e.hasError THEN e.errMsg ELSE <<"agent error">>)
    ELSE (IF e.payload.data.message # <<>> THEN e.payload.data.message
          ELSE <<"agent error">>)

AgentFailureMessage ==
    \A c \in Calls :
        (kind[c] = "ask" /\ pc[c] = "done" /\ ~hist[c].late
            /\ IsAgentFailure(hist[c].cause))
        => result[c] = Failure(SuppliedAgentMsg(hist[c].cause))

\* C7: for both AskClawdbot and ResetSession a connect response with
\* ok:false fails the call with the message embedded in that response when
\* present and with "connect failed" otherwise, and no agent or reset
\* request is sent on that connection afterwards.
IsConnectFailure(e) == e.valid /\ IsConnectRes(e) /\ ~e.ok

ConnectFailureMessage ==
    \A c \in Calls :
        (pc[c] = "done" /\ ~hist[c].late /\ IsConnectFailure(hist[c].cause))
        => /\ result[c] = Failure(IF hist[c].cause.hasError
                                  THEN hist[c].cause.errMsg
                                  ELSE <<"connect failed">>)
           /\ rpc[c] = "exit"

\* C10: an envelope that fails to parse, and an agent event whose payload
\* fails to parse, is skipped: the step of the reader that handles it
\* resolves nothing, leaves the buffer, the captured runId, the requests
\* written and the progress notifications as they were, and goes back to
\* reading.
MalformedSkipped ==
    [][\A c \in Calls :
        (rpc[c] = "proc" /\ Unparseable(cur[c]) /\ rpc'[c] # "proc") =>
            /\ rpc'[c] = "read"
            /\ runID'[c] = runID[c]
            /\ buffer'[c] = buffer[c]
            /\ sent'[c] = sent[c]
            /\ notes'[c] = notes[c]
            /\ responseChan'[c] = responseChan[c]
            /\ errorChan'[c] = errorChan[c]
            /\ doneChan'[c] = doneChan[c]
            /\ result'[c] = result[c]
            /\ pc'[c] = pc[c]]_vars

MalformedSkippedWitness ==
    /\ hist[1].malformed
    /\ kind[1] = "ask"
    /\ result[1] = Success(<<"A">>)

\* C2: on one Client at most one call is in flight: at most one invocation
\* is past c.mu.Lock() and not yet returned, it is the holder of the mutex,
\* at most one connection is open, and an invocation dials only while every
\* other one is before its Lock or has returned.
InFlight(c) == pc[c] \in {"dial", "wait"}

OneCallInFlight ==
    \A c \in Calls :
        /\ InFlight(c) <=> mu = c
        /\ conn[c] = "open" => InFlight(c)
        /\ InFlight(c) => \A d \in Calls \ {c} : pc[d] \in {"idle", "lock", "done"}

OneCallInFlightWitness ==
    /\ pc[1] = "lock" /\ waited[1] > 0
    /\ pc[2] = "wait" /\ conn[2] = "open" /\ waited[2] > 0

\* C8: a call that gets no terminal event returns the timeout error no later
\* than its budget (15 minutes for AskClawdbot, 10 seconds for ResetSession)
\* after the invocation started, the time it was queued behind an earlier
\* call on the same Client included.
TimeoutWithinBudgetOfInvocation ==
    \A c \in Calls :
        result[c] = Failure(TimeoutMsg(c)) => waited[c] + timer[c] <= TimeoutOf(c)

\* What the select does guarantee: the budget runs from the select, after the
\* mutex was acquired and the Gateway dialled. A call waiting in the select
\* never outlives the budget counted from there, a call that returns without
\* a signal of its reader returns the timeout error, and it does so exactly
\* when that budget is used up.
TimedOut(c) == pc[c] = "done" /\ result[c] = Failure(TimeoutMsg(c))

Unsignalled(c) ==
    pc[c] = "done" /\ conn[c] # "none" /\ (hist[c].stopAt = 0 \/ hist[c].late)

TimeoutAfterSelect ==
    \A c \in Calls :
        /\ pc[c] = "wait" => timer[c] <= TimeoutOf(c)
        /\ Unsignalled(c) => TimedOut(c)
        /\ TimedOut(c) => timer[c] = TimeoutOf(c)

TimeoutAfterSelectWitness ==
    /\ kind[2] = "ask" /\ TimedOut(2) /\ waited[2] > 0 /\ nread[2] = 0
    /\ pc[1] = "lock"

\* C1: for every non-empty message id, while its entry is in the dedup
\* cache at most one processMessage unit of work is spawned for that id,
\* whether the HandleMessage invocations carrying it run one after another
\* or concurrently.
ProcessedOnce == \A id \in CachedIDs : spawned[id] <= 1

\* C9: once AskClawdbot has returned the timeout error, no step of the
\* call's reader and no progress callback changes the reply buffer, the
\* unit's thinking id, response id or accumulator, or creates or edits a
\* chat message.
ProgressCalls(log) ==
    SelectSeq(log, LAMBDA o : o.by = "progress" /\ o.op \in {"send", "update"})

NoMutationAfterTimeout ==
    [][(TimedOut(1) /\ (ran' # ran \/ rpc'[1] # rpc[1])) =>
            /\ buffer'[1] = buffer[1]
            /\ placeholderID' = placeholderID
            /\ responseMessageID' = responseMessageID
            /\ streamBuffer' = streamBuffer
            /\ ProgressCalls(feishu') = ProgressCalls(feishu)]_vars

\* C20: in one AskClawdbot call at most one connect request and at most one
\* agent request are written to the connection, whatever the Gateway sends.
Written(c, id) == Cardinality({i \in DOMAIN sent[c] : sent[c][i] = id})

AtMostOneRequestEach ==
    \A c \in Calls : kind[c] = "ask" =>
        /\ Written(c, "connect") <= 1
        /\ Written(c, "agent") <= 1

\* C18: ResetSession writes the reset request only after a connect response
\* with ok:true, returns success exactly when a res with id "reset" and
\* ok:true resolved it, and returns an error carrying the Gateway message
\* (or "reset failed") when that response has ok:false.
IsResetAnswer(e, ok) == e.valid /\ IsResetRes(e) /\ e.ok = ok

ResetProtocol ==
    \A c \in Calls : kind[c] = "reset" =>
        /\ "reset" \in Range(sent[c]) => hist[c].connectOK
        /\ (pc[c] = "done" /\ result[c].status = "ok")
                => IsResetAnswer(hist[c].cause, TRUE)
        /\ (pc[c] = "done" /\ ~hist[c].late /\ IsResetAnswer(hist[c].cause, TRUE))
                => result[c] = Success(<<>>)
        /\ (pc[c] = "done" /\ ~hist[c].late /\ IsResetAnswer(hist[c].cause, FALSE))
                => result[c] = Failure(IF hist[c].cause.hasError
                                       THEN hist[c].cause.errMsg
                                       ELSE <<"reset failed">>)

\* The words of a text: its maximal runs of letters.
RECURSIVE WordsOf(_, _)
WordsOf(text, run) ==
    IF text = <<>> THEN (IF run = <<>> THEN {} ELSE {run})
    ELSE IF IsWordChar(Head(text)) THEN WordsOf(Tail(text), Append(run, Head(text)))
    ELSE (IF run = <<>> THEN {} ELSE {run}) \cup WordsOf(Tail(text), <<>>)

HasQuestionWord(text) ==
    \E w \in WordsOf(text, <<>>) : Len(w) = 1 /\ ToLower(w[1]) \in questionWords

\* White space, comma, colon and the full-width form of each.
StatedSeparators == {" ", ",", ":", "fw ", "fw,", "fw:"}

StatedPolicy(text, mentions) ==
    IF mentions # <<>> THEN TRUE
    ELSE \/ text # <<>> /\ text[Len(text)] \in {"?", "fw?"}
         \/ HasQuestionWord(text)
         \/ \E i \in 1..Len(text) : text[i] \in actionVerbs
         \/ Len(text) >= 2 /\ ToLower(text[1]) \in botTriggers
                           /\ text[2] \in StatedSeparators

\* C13: shouldRespondInGroup returns true for every text when the mentions
\* are not empty; with no mention it returns true exactly when the text ends
\* with "?" or the full-width question mark, or holds an interrogative word
\* as a whole word (whatever its case), or holds an action verb, or begins
\* (whatever its case) with a bot trigger immediately followed by a
\* separator: white space, comma, colon or the full-width form of one of them.
TriggerPolicyAsStated ==
    Len(respond) = 1 => respond[1] = StatedPolicy(groupText, groupMentions)

\* The message of invocation h is a duplicate: its id is not empty and either
\* the invocation found the id in the cache, or an invocation that received
\* the same id before it has spawned a unit under the cache entry that is
\* still there.
IsDuplicate(h) ==
    /\ hmsg[h].MessageID # ""
    /\ \/ outcome[h] = "duplicate"
       \/ \E g \in Handlers :
            /\ g < h
            /\ hmsg[g].MessageID = hmsg[h].MessageID
            /\ outcome[g] = "spawned"
            /\ spawned[hmsg[h].MessageID] >= 2

\* C12: HandleMessage spawns a unit of work exactly when the message is not
\* a duplicate, its content with the mentions stripped and the white space
\* trimmed is not empty, and the chat is not a group chat or
\* shouldRespondInGroup holds; in every other case it returns without
\* spawning anything. A direct message is never put to the trigger policy.
SpawnsExactlyWhenEligible ==
    \A h \in Handlers : hpc[h] = "done" =>
        (outcome[h] = "spawned" <=>
            /\ ~IsDuplicate(h)
            /\ CleanText(hmsg[h]) # <<>>
            /\ \/ hmsg[h].ChatType # "group"
               \/ shouldRespondInGroup(CleanText(hmsg[h]), hmsg[h].Mentions))

\* C19: the session key processMessage passes to the Gateway is the
\* configured override when that is not empty, and otherwise "feishu:"
\* followed by the chat id; two messages of the same chat use the same key,
\* and with no override messages of different chats use different keys.
Keyed(u) == spc[u] = "sent"

SessionKeyContract ==
    /\ \A u \in Units : Keyed(u) =>
        /\ sessionKey # <<>> => agentKey[u] = sessionKey
        /\ sessionKey = <<>> =>
            /\ Len(agentKey[u]) = Len(chatID[u]) + 1
            /\ agentKey[u][1] = "feishu:"
            /\ SubSeq(agentKey[u], 2, Len(agentKey[u])) = chatID[u]
    /\ \A u, v \in Units : Keyed(u) /\ Keyed(v) =>
        /\ chatID[u] = chatID[v] => agentKey[u] = agentKey[v]
        /\ (sessionKey = <<>> /\ chatID[u] # chatID[v])
                => agentKey[u] # agentKey[v]

SessionKeyContractWitness ==
    /\ Keyed(1) /\ Keyed(2)
    /\ sessionKey = <<>>
    /\ chatID[1] # chatID[2]
    /\ agentKey[1] = <<"feishu:", "c1">>
    /\ agentKey[2] # agentKey[1]

\* The chat as the calls of the unit leave it: a message is visible from the
\* SendMessage that created it to a DeleteMessage of it that succeeded, and
\* holds the text of the last successful SendMessage or UpdateMessage.
Created(log, by) ==
    {log[i].id : i \in {j \in DOMAIN log :
        log[j].op = "send" /\ log[j].ok /\ log[j].by \in by}}

Deleted(log) ==
    {log[i].id : i \in {j \in DOMAIN log : log[j].op = "delete" /\ log[j].ok}}

Visible(log, by) == Created(log, by) \ Deleted(log)

Writers == {"thinking", "animation", "progress", "final"}

Writes(log, id) ==
    SelectSeq(log, LAMBDA o : o.id = id /\ o.ok /\ o.op \in {"send", "update"})

TextOf(log, id) == Writes(log, id)[Len(Writes(log, id))].text

\* Every call the unit made on the chat platform succeeded.
ChatWorks == \A i \in DOMAIN feishu : feishu[i].ok

\* C17: at most one of the thinking placeholder and the response placeholder
\* is a visible chat message, in every state of a unit of work (all calls on
\* the chat platform succeeding): when a response message exists the
\* thinking message has been deleted, and none is created afterwards.
OnePlaceholderVisible ==
    ChatWorks =>
        ~ /\ Visible(feishu, {"thinking"}) # {}
          /\ Visible(feishu, {"progress"}) # {}

\* The unit of work has finished: processMessage has returned.
Finished == upc = "end"

\* The call of the unit returned a reply and no error.
CallSucceeded == pc[1] = "done" /\ result[1].status = "ok"

\* C16: when the call did not fail and its trimmed reply is empty or
\* "NO_REPLY", processMessage sends no message after the call has returned
\* and deletes every placeholder the unit created: once the unit has
\* finished, no message it created is visible (all calls on the chat
\* platform succeeding), whatever the interleaving of the thinking timer,
\* the progress chunks and the return of the call. A unit that has panicked
\* runs no further.
Stopped == Finished \/ panicked

NoReplyLeavesNothing ==
    (ChatWorks /\ CallSucceeded /\ NoReply(Reply)) =>
        /\ \A i \in DOMAIN feishu : ~(feishu[i].by = "final" /\ feishu[i].op = "send")
        /\ Stopped => Visible(feishu, Writers) = {}

\* The call of the unit returned an error.
CallFailed == pc[1] = "done" /\ result[1].status = "err"

\* The thinking delay elapsed while the call was running.
FiredBeforeReturn == thinkingTimer = "fired"

\* C15: when the Gateway answers with a non-empty reply only after the
\* thinking delay has elapsed, the thinking placeholder created when the
\* delay fired is edited to hold the final reply: once the unit has stopped
\* (all calls on the chat platform succeeding), the placeholder is visible,
\* holds the reply, and was never deleted.
PlaceholderEditedToReply ==
    (ChatWorks /\ Stopped /\ FiredBeforeReturn /\ CallSucceeded
        /\ ~NoReply(Reply)) =>
        \A id \in Created(feishu, {"thinking"}) :
            /\ id \in Visible(feishu, Writers)
            /\ TextOf(feishu, id) = Reply

\* The visible messages that hold the text.
Holding(text) ==
    {id \in Visible(feishu, Writers) : TextOf(feishu, id) = text}

\* C11: every failure returned by AskClawdbot (dial failure, connect or
\* agent response with ok:false, lifecycle error, timeout) is rendered as a
\* single chat message, "(system error)" followed by the error message: once
\* the unit has stopped (all calls on the chat platform succeeding), exactly
\* one visible message holds that text.
FailureRendered ==
    (ChatWorks /\ Stopped /\ CallFailed) =>
        Cardinality(Holding(TrimSpace(ErrorReply(result[1].val)))) = 1

\* A thinking message was sent, or its sending was tried.
ThinkingTried == \E i \in DOMAIN feishu : feishu[i].by = "thinking"

\* Exactly one message was created by the unit; it is visible and holds the
\* reply.
OneMessageHoldsReply ==
    /\ Cardinality(Created(feishu, Writers)) = 1
    /\ Holding(Reply) = Created(feishu, Writers)

DoneFirst == done /\ thinkingTimer \notin {"fired", "late"}

ResolvesOnlyAfterAgentAccepted ==
    \A c \in Calls : (kind[c] = "ask" /\ pc[c] = "done" /\ result[c].status = "ok") =>
        /\ "agent" \in Range(sent[c])
        /\ hist[c].agentOK

\* C22: once a non-empty runId is captured, an agent event that names
\* another run is ignored entirely: the step of the reader that handles it
\* leaves the buffer, the accepted frames and the progress notifications as
\* they were, resolves nothing, and goes back to reading. While no runId is
\* captured every agent event is accepted: an assistant frame is taken into
\* the frames of the call and a lifecycle end or error resolves it.
Handles(c) == rpc[c] = "proc" /\ rpc'[c] # "proc" /\ kind[c] = "ask"

AnyRun(c) ==
    /\ cur[c].valid /\ IsAgentEvent(cur[c]) /\ cur[c].payload.valid
    /\ runID[c] = ""

OtherRunsIgnored ==
    [][\A c \in Calls :
        /\ (Handles(c) /\ Foreign(cur[c], runID[c])) =>
            /\ rpc'[c] = "read"
            /\ runID'[c] = runID[c]
            /\ buffer'[c] = buffer[c]
            /\ frames'[c] = frames[c]
            /\ notes'[c] = notes[c]
            /\ responseChan'[c] = responseChan[c]
            /\ errorChan'[c] = errorChan[c]
            /\ result'[c] = result[c]
        /\ (Handles(c) /\ AnyRun(c) /\ cur[c].payload.stream = "assistant") =>
            frames'[c] = Append(frames[c], cur[c].payload.data)
        /\ (Handles(c) /\ AnyRun(c) /\ cur[c].payload.stream = "lifecycle"
                /\ cur[c].payload.data.valid
                /\ DecodeStreamData(cur[c].payload.data).Phase \in {"end", "error"}) =>
            rpc'[c] = "exit"]_vars

OtherRunsIgnoredWitness ==
    /\ kind[1] = "ask"
    /\ hist[1].foreign
    /\ runID[1] = "r1"
    /\ rpc[1] = "read"
    /\ buffer[1] = <<>>
    /\ notes[1] = <<>>
    /\ pc[1] = "wait"

\* C23: an accepted frame of stream thought, tool_call or tool_result leaves
\* the reply buffer and the captured runId unchanged and resolves nothing; it
\* is forwarded to onProgress with its stream name and its data as received.
\* A lifecycle frame whose phase is neither end nor error changes nothing.
Accepted(c) ==
    /\ cur[c].valid /\ IsAgentEvent(cur[c]) /\ cur[c].payload.valid
    /\ ~Foreign(cur[c], runID[c])

Untouched(c) ==
    /\ rpc'[c] = "read"
    /\ runID'[c] = runID[c]
    /\ buffer'[c] = buffer[c]
    /\ frames'[c] = frames[c]
    /\ responseChan'[c] = responseChan[c]
    /\ errorChan'[c] = errorChan[c]
    /\ result'[c] = result[c]

SideStreams == {"thought", "tool_call", "tool_result"}

SideFramesForwarded ==
    [][\A c \in Calls :
        /\ (Handles(c) /\ Accepted(c) /\ cur[c].payload.stream \in SideStreams) =>
            /\ Untouched(c)
            /\ notes'[c] =
                IF onProgress[c]
                THEN Append(notes[c], [stream |-> cur[c].payload.stream,
                                       data |-> cur[c].payload.data])
                ELSE notes[c]
        /\ (Handles(c) /\ Accepted(c) /\ cur[c].payload.stream = "lifecycle"
                /\ cur[c].payload.data.valid
                /\ DecodeStreamData(cur[c].payload.data).Phase \notin {"end", "error"}) =>
            /\ Untouched(c)
            /\ notes'[c] = notes[c]]_vars

SideFramesForwardedWitness ==
    /\ kind[1] = "ask"
    /\ result[1] = Success(<<"A">>)
    /\ Len(notes[1]) = 2
    /\ notes[1][2] = [stream |-> "thought", data |-> TextData(<<"T">>)]

\* C24: the progress notifications of a call take effect in the unit in the
\* order in which their events arrived: once every notification has been
\* applied to the unit's accumulator (none was dropped because the unit was
\* done), the accumulator equals the reply buffer of the client.
AllApplied == ~done /\ rpc[1] # "proc" /\ ran = DOMAIN notes[1]

AccumulatorFollowsArrival ==
    (upc = "ask" /\ AllApplied) => streamBuffer = buffer[1]

\* C25: a progress callback that has not finished (it waits for the unit's
\* lock, or is inside a call on the chat platform) never holds up the read
\* loop: while callbacks are pending the reader can still handle the message
\* it has read and read the next one, and so update the buffer and resolve
\* the call.
Pending == DOMAIN notes[1] \ ran

ReaderNeverWaitsForProgress ==
    (Alive /\ Pending # {}) =>
        /\ rpc[1] = "proc" => ENABLED AskReaderProc(1)
        /\ (rpc[1] = "read" /\ conn[1] = "open" /\ nread[1] < MaxQuickEnvelopes)
                => ENABLED ReaderRead(1, QuickEnvelopes, MaxQuickEnvelopes)

ReaderNeverWaitsForProgressWitness ==
    /\ Pending = {1}
    /\ nread[1] = 2
    /\ buffer[1] = <<"A">>
    /\ pc[1] = "done"
    /\ result[1] = Success(<<"A">>)

\* C26: when the call returns a reply that is neither empty nor "NO_REPLY"
\* and every call on the chat platform succeeds, then once processMessage has
\* finished exactly one message created by the unit is visible, its text is
\* the trimmed reply, and no thinking placeholder is left, for every
\* interleaving of the thinking timer, the progress chunks and the return of
\* the call.
FinalReplyIsOnlyMessage ==
    (ChatWorks /\ Finished /\ CallSucceeded /\ ~NoReply(Reply)) =>
        /\ Cardinality(Visible(feishu, Writers)) = 1
        /\ Holding(Reply) = Visible(feishu, Writers)
        /\ Visible(feishu, {"thinking"}) = {}

\* The progress callback of chunk i runs in this step.
Runs(i) == i \notin ran /\ ran' = ran \cup {i}

\* This step calls UpdateMessage on the response message from a progress
\* callback.
ProgressEdit ==
    /\ Len(feishu') = Len(feishu) + 1
    /\ feishu'[Len(feishu')].by = "progress"
    /\ feishu'[Len(feishu')].op = "update"

\* C27: the streaming edits of the response message made by onProgress are
\* throttled: a progress callback calls UpdateMessage only when the update
\* interval has passed since the last such call, successful or not, and since
\* the creation of the response message; a chunk that arrives inside the
\* interval is accumulated and causes no call on the chat platform.
EditsThrottled ==
    [][/\ ProgressEdit => ~attempted
       /\ \A i \in DOMAIN notes[1] :
            (Runs(i) /\ attempted /\ ~ProgressSkips(notes[1][i])) =>
                /\ feishu' = feishu
                /\ streamBuffer' = Accumulate(streamBuffer,
                                        DecodeStreamData(notes[1][i].data))]_vars

\* The sweep of the cache runs in this step.
Sweeps == \E id \in CachedIDs : has(id) /\ seenMessages'[id] = Absent

\* Invocation h makes its duplicate test in this step.
Looks(h) == hpc[h] = "has" /\ hpc'[h] # "has" /\ hmsg[h].MessageID # ""

\* C28: a sweep of the dedup cache removes exactly the entries whose id was
\* first seen more than the TTL ago and leaves every other entry as it is:
\* the time an entry carries is the time its id was first seen (it is not
\* written again while the entry is there), and the sweep removes the entries
\* whose time is more than the TTL in the past. The lookup finds an id a
\* duplicate exactly when its entry is present, whatever its age, so an id
\* whose entry has been purged is taken as new.
SweepByFirstSeen ==
    [][/\ Sweeps => \A id \in CachedIDs :
            seenMessages'[id] = IF seenMessages[id] > DedupTTL THEN Absent
                                ELSE seenMessages[id]
       /\ \A id \in CachedIDs :
            (has(id) /\ seenMessages'[id] # Absent)
                => seenMessages'[id] >= seenMessages[id]
       /\ \A h \in Handlers : Looks(h) =>
            (outcome'[h] = "duplicate" <=> has(hmsg[h].MessageID))]_vars

\* The texts the unit has written, or tried to write, to its thinking
\* placeholder: the thinking message and the edits of the animation.
ThinkingTexts ==
    SelectSeq(feishu, LAMBDA o : \/ o.by = "thinking" /\ o.ok
                                 \/ o.by = "animation")

\* The number of dots of a thinking text.
Dots(text) == Len(text) - 1

\* A tick of the animation edits the thinking placeholder in this step.
AnimationEdit ==
    /\ Len(feishu') = Len(feishu) + 1
    /\ feishu'[Len(feishu')].by = "animation"

\* C29: the thinking animation shows 1, 2 or 3 dots only, going 1 -> 2 -> 3
\* -> 1 from one tick to the next, and it stops once the unit is done or the
\* placeholder superseded: no tick of the animation edits the thinking
\* placeholder after the unit has been marked done, or after the first
\* assistant chunk has deleted the placeholder and cleared its id.
AnimationCycles ==
    [][AnimationEdit =>
        LET edit == feishu'[Len(feishu')]
            last == ThinkingTexts[Len(ThinkingTexts)]
        IN /\ ~done
           /\ edit.op = "update"
           /\ edit.id = last.id
           /\ edit.id \notin Deleted(feishu)
           /\ edit.text = ThinkingText(Dots(edit.text))
           /\ Dots(edit.text) \in 1..3
           /\ Dots(last.text) \in 1..3
           /\ Dots(edit.text) = (Dots(last.text) % 3) + 1]_vars

\* The animation has gone round once, 1 -> 2 -> 3 -> 1, and the first chunk
\* has put an end to it.
AnimationCyclesWitness ==
    /\ Len(ThinkingTexts) = 4
    /\ ThinkingTexts[4].text = ThinkingText(1)
    /\ animation = "exit"
    /\ placeholderID = NoID
    /\ Deleted(feishu) # {}
    /\ ~done

\* The calls processMessage made on the chat platform to deliver the reply.
Finals == SelectSeq(feishu, LAMBDA o : o.by = "final")

\* C30: in the dispatcher that does not stream, the reply is written to the
\* thinking placeholder with one UpdateMessage; when that fails the reply is
\* sent once as a new message with SendMessage and the edit is not tried
\* again, and when it succeeds no other message is sent; whether the
\* SendMessage succeeds or fails the unit ends there.
UpdateFallsBackToSend ==
    (Finished /\ placeholderID # NoID /\ ~NoReply(Reply)) =>
        /\ Finals # <<>>
        /\ Finals[1].op = "update"
        /\ Finals[1].id = placeholderID
        /\ Finals[1].text = Reply
        /\ IF Finals[1].ok
           THEN Len(Finals) = 1
           ELSE /\ Len(Finals) = 2
                /\ Finals[2].op = "send"
                /\ Finals[2].text = Reply

\* The edit failed, the reply was sent as a new message, and that failed too.
UpdateFallsBackToSendWitness ==
    /\ Finished
    /\ placeholderID # NoID
    /\ Len(Finals) = 2
    /\ ~Finals[1].ok
    /\ Finals[2].op = "send"
    /\ ~Finals[2].ok
    /\ Reply = <<"A">>

\* C31: a unit of work never crashes the process through the stop signal of
\* its animation: whatever the interleaving of the thinking timer, the
\* assistant chunks (a first chunk whose SendMessage fails and another chunk
\* after it among them) and the return of the call, thinkingStop is closed
\* at most once in a run of processMessage, so no close finds it closed.
StopClosedAtMostOnce == ~panicked

\* The calls on the chat platform made in this step.
NewCalls == {feishu'[i] : i \in (Len(feishu) + 1)..Len(feishu')}

\* C32: the callbacks of a unit change its state one at a time, each under
\* the unit's lock, and once the unit has set done under that lock neither
\* the callback of the thinking timer, nor the animation, nor a progress
\* callback calls SendMessage, UpdateMessage or DeleteMessage or changes
\* placeholderID or responseMessageID: after done, the only calls on the chat
\* platform are those of the finalization of processMessage.
OnlyFinalizationAfterDone ==
    [][done =>
        /\ placeholderID' = placeholderID
        /\ responseMessageID' = responseMessageID
        /\ Len(feishu') >= Len(feishu)
        /\ SubSeq(feishu', 1, Len(feishu)) = feishu
        /\ \A o \in NewCalls : o.by = "final"
        /\ NewCalls # {} => upc = "final" /\ upc' = "end"]_vars

\* The timer's callback and the callback of a chunk have both run after done
\* was set, and the finalization has delivered the reply.
OnlyFinalizationAfterDoneWitness ==
    /\ Finished
    /\ thinkingTimer = "void"
    /\ ran = {1}
    /\ streamBuffer = <<>>
    /\ Len(feishu) = 1
    /\ feishu[1].by = "final"
    /\ feishu[1].text = <<"A">>

\* The reader of call c has stopped on a failed read, with no outcome
\* signalled.
Silent(c) == rpc[c] = "exit" /\ hist[c].cause = NoEnvelope

\* C33: when the read from the connection fails before a terminal event, the
\* reader stops without signalling an outcome, and AskClawdbot returns
\* neither a reply nor a connection error then: it goes on waiting, holding
\* the client's lock, and returns only when the 15-minute timer fires, with
\* the timeout error.
ReadFailureEndsInTimeout ==
    [][\A c \in Calls : (kind[c] = "ask" /\ Silent(c) /\ pc[c] = "wait") =>
        /\ mu = c
        /\ result[c] = NoResult
        /\ responseChan[c] = <<>> /\ errorChan[c] = <<>>
        /\ pc'[c] # "wait" =>
            /\ timer[c] >= AskTimeout
            /\ result'[c] = Failure(<<"timeout waiting for response">>)
            /\ mu' = 0]_vars

\* The reader of the first call is gone, the call has waited out the 15
\* minutes, and the second invocation is still queued behind it.
ReadFailureEndsInTimeoutWitness ==
    /\ kind[1] = "ask"
    /\ Silent(1)
    /\ pc[1] = "wait"
    /\ timer[1] = AskTimeout
    /\ mu = 1
    /\ Queued(2)

\* Invocation c has been made and has not returned.
Running(c) == pc[c] \in {"lock", "dial", "wait"}

\* The outcomes the reader of call c has signalled and the caller has not
\* received.
Signals(c) == Len(responseChan[c]) + Len(errorChan[c]) + Len(doneChan[c])

\* C34: every AskClawdbot and ResetSession invocation eventually returns,
\* with a reply, an error or the timeout, and every return, the one after a
\* failed dial included, releases the client's lock and leaves no connection
\* open, so that with fair scheduling every invocation queued on the client
\* gets the lock; the reader signals at most one outcome per call and never
\* blocks on the signal (the channel is empty when it sends), also when the
\* caller has already returned on its timeout. An invocation stops running
\* only by returning, and it returns only as the holder of the lock, so "it
\* is again and again not running" says that it got the lock and returned.
EveryInvocationReturns ==
    /\ \A c \in Calls : []<>(~Running(c))
    /\ [][\A c \in Calls :
            /\ (Running(c) /\ pc'[c] = "done") =>
                /\ mu = c /\ mu' = 0
                /\ conn'[c] # "open"
                /\ result'[c].status \in {"ok", "err"}
            /\ Signals(c)' > Signals(c) =>
                /\ Signals(c) = 0
                /\ hist[c].cause = NoEnvelope
                /\ rpc'[c] = "exit"]_vars
    /\ [](\A c \in Calls :
            /\ Signals(c) <= 1
            /\ rpc[c] \in {"read", "proc"} => Signals(c) = 0)

\* The first call returned on its timeout, its reader signalled an outcome
\* afterwards without blocking, and the second invocation is free to take
\* the lock.
EveryInvocationReturnsWitness ==
    /\ pc[1] = "done"
    /\ result[1] = Failure(TimeoutMsg(1))
    /\ hist[1].late
    /\ rpc[1] = "exit"
    /\ Signals(1) = 1
    /\ mu = 0
    /\ conn[1] = "closed"
    /\ pc[2] = "lock"

====
